---- MODULE Spec2Model ----
(***************************************************************************)
(* A model of brainregister.BrainRegister (src/brainregister/__init__.py): *)
(* the resolution model, the parameter-map store, the transform router and *)
(* the artifact cache policy of register().                                *)
(*                                                                         *)
(* Numbers.  Resolutions are integer micrometres.  A scale factor is the   *)
(* Python value round(a / b, 6); it is held as the integer number of       *)
(* millionths.  Products of three scale factors do not fit a machine       *)
(* integer, so they are computed exactly on base-1000 digit sequences.     *)
(***************************************************************************)
EXTENDS Integers, Sequences, FiniteSets, TLC

VARIABLES cfg, disk, mem, log, pc, run

vars == <<cfg, disk, mem, log, pc, run>>

-----------------------------------------------------------------------------
(* Bounds of the model *)

\* resolutions are drawn from {10, 25} and the multiples 5, 10, .. 5*MaxRes
MaxRes == 3

\* an input list (annotations, auxiliary images) is empty or has MaxIdx entries
MaxIdx == 1

\* number of registration stages (elastix parameter files) per direction
MaxStages == 2

\* number of processes run one after the other on the same directory
MaxRuns == 2

-----------------------------------------------------------------------------
(* Exact arithmetic on little-endian base-1000 digit sequences *)

Micro == 10^6

Base == 10^3

RECURSIVE Digits(_)
Digits(n) == IF n < Base THEN <<n>> ELSE <<n % Base>> \o Digits(n \div Base)

RECURSIVE AddCarry(_, _, _)
AddCarry(x, y, c) ==
    IF x = <<>> /\ y = <<>>
    THEN IF c = 0 THEN <<>> ELSE <<c>>
    ELSE LET dx == IF x = <<>> THEN 0 ELSE Head(x)
             dy == IF y = <<>> THEN 0 ELSE Head(y)
             t  == dx + dy + c
         IN  <<t % Base>> \o AddCarry(IF x = <<>> THEN <<>> ELSE Tail(x),
                                      IF y = <<>> THEN <<>> ELSE Tail(y),
                                      t \div Base)

RECURSIVE MulDigit(_, _, _)
MulDigit(x, d, c) ==
    IF x = <<>>
    THEN IF c = 0 THEN <<>> ELSE <<c>>
    ELSE LET t == Head(x) * d + c
         IN  <<t % Base>> \o MulDigit(Tail(x), d, t \div Base)

RECURSIVE BigMul(_, _)
BigMul(x, y) ==
    IF y = <<>> THEN <<>>
    ELSE AddCarry(MulDigit(x, Head(y), 0), <<0>> \o BigMul(x, Tail(y)), 0)

RECURSIVE Strip(_)
Strip(x) == IF x # <<>> /\ x[Len(x)] = 0 THEN Strip(SubSeq(x, 1, Len(x) - 1)) ELSE x

RECURSIVE LessFrom(_, _, _)
LessFrom(x, y, i) ==
    IF i = 0 THEN FALSE
    ELSE IF x[i] # y[i] THEN x[i] < y[i] ELSE LessFrom(x, y, i - 1)

BigLess(x, y) ==
    LET a == Strip(x)
        b == Strip(y)
    IN  IF Len(a) # Len(b) THEN Len(a) < Len(b) ELSE LessFrom(a, b, Len(a))

\* x * y * z of three scale factors (millionths), exactly
Product3(v) == BigMul(BigMul(Digits(v[1]), Digits(v[2])), Digits(v[3]))

-----------------------------------------------------------------------------
(* Resolution model *)

\* round(a / b, 6), in millionths (no tie occurs on the resolutions used)
Round6Ratio(a, b) == (2 * a * Micro + b) \div (2 * b)

\* scale factors cut off after the sixth decimal instead of rounded
get_source_target_scale_factors_truncated(c) ==
    [s2t |-> [k \in 1..3 |-> (c.src_res[k] * Micro) \div c.tar_res[k]],
     t2s |-> [k \in 1..3 |-> (c.tar_res[k] * Micro) \div c.src_res[k]]]

\* get_source_target_scale_factors: the per-axis rounded ratios, both ways
get_source_target_scale_factors(c) ==
    [s2t |-> [k \in 1..3 |-> Round6Ratio(c.src_res[k], c.tar_res[k])],
     t2s |-> [k \in 1..3 |-> Round6Ratio(c.tar_res[k], c.src_res[k])]]

\* a decision with the comparison reversed: the coarser side downsampled
decide_swapped(s2t, t2s) ==
    LET s2t_ratio == Product3(s2t)
        t2s_ratio == Product3(t2s)
    IN  IF BigLess(s2t_ratio, t2s_ratio) THEN "target"
        ELSE IF BigLess(t2s_ratio, s2t_ratio) THEN "source"
        ELSE "none"

\* a decision that takes equal products for a finer source
decide_ties_source(s2t, t2s) ==
    IF BigLess(Product3(t2s), Product3(s2t)) THEN "target" ELSE "source"

\* resolve_params, the downsampling decision
decide_downsampling(s2t, t2s) ==
    LET s2t_ratio == Product3(s2t)
        t2s_ratio == Product3(t2s)
    IN  IF BigLess(s2t_ratio, t2s_ratio) THEN "source"
        ELSE IF BigLess(t2s_ratio, s2t_ratio) THEN "target"
        ELSE "none"

-----------------------------------------------------------------------------
(* Values: None, images, parameter-map chains, paths *)

None == [k |-> "None"]

\* an attribute that was never assigned (reading it raises AttributeError)
Unset == [k |-> "Unset"]

IsNone(v) == v.k = "None"

\* a raw image file of the input data set
RawImage(c, role, side, idx) ==
    [k |-> "img", role |-> role, side |-> side, idx |-> idx,
     space |-> side,
     res |-> IF side = "source" THEN c.src_res ELSE c.tar_res,
     pixel |-> c.pixel, vals |-> c.vals,
     filt |-> <<>>, via |-> <<>>]

\* a file path: the name of the path attribute and the list index (0 if single)
PathNames ==
    {"source_template_path", "source_template_path_ds", "source_template_path_target",
     "source_anno_path", "source_anno_path_ds", "source_anno_path_target",
     "source_image_path", "source_image_path_ds", "source_image_path_target",
     "target_template_path", "target_template_path_ds", "target_template_path_source",
     "target_anno_path", "target_anno_path_ds", "target_anno_path_source",
     "target_image_paths", "target_image_paths_ds", "target_image_paths_source",
     "src_tar_ds_pm_path", "tar_src_ds_pm_path", "src_tar_pm_paths", "tar_src_pm_paths",
     "TransformParameters", "target_params_output_path", "output_dirs"}

\* the largest list index of the model
PathTop == (IF MaxIdx > MaxStages THEN MaxIdx ELSE MaxStages) - 1

Paths == PathNames \X (0..PathTop)

\* the resolution an image has after being resampled with a scaling chain:
\* one output voxel covers TransformParameters input voxels (to the micrometre)
ScaleRes(res, tp) == [k \in 1..3 |-> (2 * res[k] * tp[k] + Micro) \div (2 * Micro)]

-----------------------------------------------------------------------------
(* The interpreter state threaded through the methods:                      *)
(*   disk, mem, log  the files, the object's attributes, the engine calls   *)
(*   err             the pending exception ("" if none)                     *)
(*   ret             the value returned by the last call                    *)

Ok(s) == s.err = ""

Fail(s, e) == [s EXCEPT !.err = e]

Ret(s, v) == [s EXCEPT !.ret = v]

SetMem(s, f, v) == [s EXCEPT !.mem[f] = v]

Logged(s, e) == [s EXCEPT !.log = Append(@, e)]

exists(s, p) == s.disk[p].k # "None"

\* sitk.WriteImage / sitk.WriteParameterFile: the file is created or replaced
WriteFile(s, p, v) ==
    LET t == Logged(s, [op |-> "write", path |-> p, existed |-> exists(s, p), val |-> v])
    IN  [t EXCEPT !.disk[p] = v]

save_image(s, image, path) ==
    IF ~Ok(s) THEN s
    ELSE IF IsNone(image) THEN Fail(s, "TypeError")
    ELSE WriteFile(s, path, image)

load_image(s, path) ==
    IF ~Ok(s) THEN s
    ELSE IF ~exists(s, path) THEN Fail(s, "RuntimeError")
    ELSE Ret(s, s.disk[path])

-----------------------------------------------------------------------------
(* Parameter maps *)

\* the spaces a chain leads from and to, per downsampling decision
ChainFrom(d, name) ==
    CASE name = "src_tar_ds" -> IF d = "target" THEN "ds" ELSE "source"
      [] name = "tar_src_ds" -> IF d = "target" THEN "target" ELSE "ds"
      [] name = "src_tar"    -> IF d = "source" THEN "ds" ELSE "source"
      [] name = "tar_src"    -> IF d = "target" THEN "ds" ELSE "target"

ChainTo(d, name) ==
    CASE name = "src_tar_ds" -> IF d = "target" THEN "target" ELSE "ds"
      [] name = "tar_src_ds" -> IF d = "target" THEN "ds" ELSE "source"
      [] name = "src_tar"    -> IF d = "target" THEN "ds" ELSE "target"
      [] name = "tar_src"    -> IF d = "source" THEN "ds" ELSE "source"

\* "{:.6f}".format(v) for a non-negative v held in millionths
Format6(v) ==
    ToString(v \div Micro) \o "."
        \o ToString((v \div 100000) % 10) \o ToString((v \div 10000) % 10)
        \o ToString((v \div 1000) % 10) \o ToString((v \div 100) % 10)
        \o ToString((v \div 10) % 10) \o ToString(v % 10)

\* the value of a string of decimal digits appended to the digits read so far
RECURSIVE ParseDigits(_, _)
ParseDigits(str, acc) ==
    IF str = "" THEN acc
    ELSE ParseDigits(Tail(str), 10 * acc + (CHOOSE d \in 0..9 : ToString(d) = Head(str)))

\* the number a parameter file entry with six decimals stands for, in millionths
ParseFloat(str) ==
    LET point == CHOOSE i \in 1..Len(str) : SubSeq(str, i, i) = "."
    IN  ParseDigits(SubSeq(str, 1, point - 1), 0) * Micro
        + ParseDigits(SubSeq(str, point + 1, Len(str)), 0)

\* the scale factors on the diagonal of a TransformParameters tuple
Diagonal(tp) == <<ParseFloat(tp[1]), ParseFloat(tp[5]), ParseFloat(tp[9])>>

\* one parameter map of the scaling kind: 00_scaling.txt with the scale
\* factors scale on the diagonal of TransformParameters and the grid size
ScalingMap(c, d, name, scale, size) ==
    [k |-> "pm", name |-> name, kind |-> "scaling", stage |-> 0,
     from |-> ChainFrom(d, name), to |-> ChainTo(d, name),
     TransformParameters |->
         <<Format6(scale[1]), "0.000000", "0.000000", "0.000000",
           Format6(scale[2]), "0.000000", "0.000000", "0.000000",
           Format6(scale[3]), "0.000000", "0.000000", "0.000000">>,
     Size |-> [k \in 1..3 |-> Format6(size[k] * Micro)],
     fix |-> <<0, 0, 0>>, order |-> c.order]

\* number of files of a parameter-map path list
NPaths(c, paths) ==
    CASE paths = "src_tar_pm_paths" -> c.n_s2t
      [] paths = "tar_src_pm_paths" -> c.n_t2s
      [] OTHER -> 1

\* self.<f> = self.load_pm_files(self.<paths>): None unless the first file
\* exists, then every file of the list is read
load_pm_files(s, c, f, paths) ==
    IF ~Ok(s) THEN s
    ELSE IF ~exists(s, <<paths, 0>>) THEN SetMem(s, f, None)
    ELSE IF \E i \in 0..(NPaths(c, paths) - 1) : ~exists(s, <<paths, i>>)
         THEN Fail(s, "RuntimeError")
    ELSE SetMem(s, f, [k |-> "pms",
                       stages |-> [i \in 1..NPaths(c, paths) |-> s.disk[<<paths, i - 1>>]]])

NearestNeighbour(pms) ==
    [pms EXCEPT !.stages = [i \in DOMAIN pms.stages |-> [pms.stages[i] EXCEPT !.order = 0]]]

\* self.<f>_anno = self.edit_pms_nearest_neighbour(self.<f>): the maps of
\* self.<f> are edited in place and the same list is returned
edit_pms_nearest_neighbour(s, f) ==
    IF ~Ok(s) THEN s
    ELSE IF IsNone(s.mem[f]) THEN SetMem(s, f \o "_anno", None)
    ELSE SetMem(SetMem(s, f, NearestNeighbour(s.mem[f])),
                f \o "_anno", NearestNeighbour(s.mem[f]))

\* the smallest and the largest of a set of pixel values
Minimum(vals) == CHOOSE v \in vals : \A w \in vals : v <= w

Maximum(vals) == CHOOSE v \in vals : \A w \in vals : w <= v

\* the pixel values of a resampled image, in halves: order 0 picks values of
\* the image; a higher order also gives values between two of them and
\* values under the smallest and over the largest
Interpolated(vals, order) ==
    IF order = 0 THEN vals
    ELSE vals \cup {Minimum(vals) - 3, Minimum(vals) + 1, Maximum(vals) + 3}

\* transformix: the image resampled with the chain pm_list, as 32-bit float
Resampled(img, pms) ==
    [img EXCEPT !.space = pms.stages[Len(pms.stages)].to,
                !.pixel = "32-bit float",
                !.vals = Interpolated(@, pms.stages[Len(pms.stages)].order),
                !.res = IF pms.stages[Len(pms.stages)].kind = "scaling"
                        THEN ScaleRes(img.res,
                                      Diagonal(pms.stages[Len(pms.stages)].TransformParameters))
                        ELSE pms.stages[Len(pms.stages)].fix,
                !.via = Append(@, [name |-> pms.stages[Len(pms.stages)].name,
                                   orders |-> [i \in DOMAIN pms.stages |->
                                                  pms.stages[i].order]])]

\* the pixel types cast_image names, and the type it casts to
NamedTypes ==
    {"8-bit unsigned integer", "8-bit signed integer",
     "16-bit unsigned integer", "16-bit signed integer"}

CastType(pixel) == IF pixel \in NamedTypes THEN pixel ELSE "16-bit unsigned integer"

\* the least and the number of values of an integer pixel type
TypeMin(pixel) ==
    CASE pixel = "8-bit signed integer" -> -(2^7)
      [] pixel = "16-bit signed integer" -> -(2^15)
      [] OTHER -> 0

TypeCount(pixel) ==
    IF pixel \in {"8-bit unsigned integer", "8-bit signed integer"} THEN 2^8 ELSE 2^16

\* numpy astype of a float v (in halves) to an integer type: the fraction is
\* dropped; for a value the type cannot hold the result depends on the build,
\* which wraps it around or pins it to the nearest end of the type
AsType(v, pixel, astype) ==
    LET w == IF v >= 0 THEN v \div 2 ELSE -((-v) \div 2)
        lo == TypeMin(pixel)
        n == TypeCount(pixel)
    IN  2 * (IF w >= lo /\ w < lo + n THEN w
             ELSE IF astype = "wrap" THEN lo + ((w - lo) % n)
             ELSE IF w < lo THEN lo ELSE lo + n - 1)

\* values under the minimum or over the maximum are set to it
Clamped(v, lo, hi) == IF v < lo THEN lo ELSE IF v > hi THEN hi ELSE v

\* cast_image: the resampled image clamped to the range of the image it was
\* made from and converted to that image's type if cast_image names it, else
\* to 16-bit unsigned
cast_image(astype, sample_template_img, sample_template_ds) ==
    [sample_template_ds EXCEPT
        !.pixel = CastType(sample_template_img.pixel),
        !.vals = {AsType(Clamped(v, Minimum(sample_template_img.vals),
                                 Maximum(sample_template_img.vals)),
                         CastType(sample_template_img.pixel), astype) : v \in @}]

\* a transform_image that hands the image back when it is given no chain
transform_image_lenient(s, template_img, pm_list) ==
    IF ~Ok(s) THEN s
    ELSE IF IsNone(template_img) THEN Fail(s, "TypeError")
    ELSE IF IsNone(pm_list) THEN Ret(s, template_img)
    ELSE Ret(Logged(s, [op |-> "transformix", img |-> template_img, pms |-> pm_list,
                        out |-> cast_image(s.astype, template_img,
                                           Resampled(template_img, pm_list))]),
             cast_image(s.astype, template_img, Resampled(template_img, pm_list)))

\* pm_list[0] raises TypeError when the chain is None
transform_image(s, template_img, pm_list) ==
    IF ~Ok(s) THEN s
    ELSE IF IsNone(pm_list) \/ IsNone(template_img) THEN Fail(s, "TypeError")
    ELSE Ret(Logged(s, [op |-> "transformix", img |-> template_img, pms |-> pm_list,
                        out |-> cast_image(s.astype, template_img,
                                           Resampled(template_img, pm_list))]),
             cast_image(s.astype, template_img, Resampled(template_img, pm_list)))

\* self.<dst> = <the value just returned>
StoreRet(s, dst) == IF ~Ok(s) THEN s ELSE SetMem(s, dst, s.ret)

\* self.<f> = v, between two calls
Assign(s, f, v) == IF ~Ok(s) THEN s ELSE SetMem(s, f, v)

\* transform_image(<the value just returned>, self.<f>)
TransformRet(s, f) == IF ~Ok(s) THEN s ELSE transform_image(s, s.ret, s.mem[f])

\* transform_image(self.<img>, self.<f>)
TransformMem(s, img, f) == IF ~Ok(s) THEN s ELSE transform_image(s, s.mem[img], s.mem[f])

\* save_image(<the value just returned>, path)
SaveRet(s, path) == IF ~Ok(s) THEN s ELSE save_image(s, s.ret, path)

-----------------------------------------------------------------------------
(* Filter pipelines *)

\* Python round() of a / b for non-negative integers: ties go to the even side
RoundHalfEven(a, b) ==
    IF 2 * (a % b) < b THEN a \div b
    ELSE IF 2 * (a % b) > b THEN (a \div b) + 1
    ELSE IF (a \div b) % 2 = 0 THEN a \div b ELSE (a \div b) + 1

\* str.split(sep): the parts of str between the separators
RECURSIVE Split(_, _)
Split(str, sep) ==
    IF \E i \in 1..Len(str) : SubSeq(str, i, i) = sep
    THEN LET at == CHOOSE i \in 1..Len(str) :
                       /\ SubSeq(str, i, i) = sep
                       /\ \A j \in 1..(i - 1) : SubSeq(str, j, j) # sep
         IN  <<SubSeq(str, 1, at - 1)>> \o Split(SubSeq(str, at + 1, Len(str)), sep)
    ELSE <<str>>

UpperCase ==
    {"A", "B", "C", "D", "E", "F", "G", "H", "I", "J", "K", "L", "M",
     "N", "O", "P", "Q", "R", "S", "T", "U", "V", "W", "X", "Y", "Z"}

\* ''.join([c for c in f if c.isupper()])
RECURSIVE FilterCode(_)
FilterCode(f) ==
    IF f = "" THEN ""
    ELSE (IF Head(f) \in UpperCase THEN Head(f) ELSE "") \o FilterCode(Tail(f))

\* str.isdigit()
IsDigit(str) ==
    /\ str # ""
    /\ \A i \in 1..Len(str) : \E d \in 0..9 : SubSeq(str, i, i) = ToString(d)

\* tuple([int(s) for s in f.split(',') if s.isdigit()])
RECURSIVE DigitParts(_)
DigitParts(parts) ==
    IF parts = <<>> THEN <<>>
    ELSE (IF IsDigit(Head(parts)) THEN <<ParseDigits(Head(parts), 0)>> ELSE <<>>)
         \o DigitParts(Tail(parts))

FilterKernel(f) == DigitParts(Split(f, ","))

\* the sitk filter and the name a filter code stands for
FilterOf(filter_code) ==
    CASE filter_code = "M" -> [k |-> "filter", flt |-> "MedianImageFilter", name |-> "Median"]
      [] filter_code = "E" -> [k |-> "filter", flt |-> "MeanImageFilter", name |-> "Mean"]
      [] filter_code = "G" -> [k |-> "filter", flt |-> "SmoothingRecursiveGaussianImageFilter",
                               name |-> "Gaussian"]
      [] filter_code = "GH" -> [k |-> "filter", flt |-> "SmoothingRecursiveGaussianImageFilter",
                                name |-> "Gaussian-High-Pass"]
      [] OTHER -> None

\* the stages of the segments of a filter string: a segment whose code is not
\* M, E, G or GH adds none
RECURSIVE FilterStages(_)
FilterStages(filter_list) ==
    IF filter_list = <<>> THEN <<>>
    ELSE (IF IsNone(FilterOf(FilterCode(Head(filter_list)))) THEN <<>>
          ELSE <<[flt |-> FilterOf(FilterCode(Head(filter_list))).flt,
                  name |-> FilterOf(FilterCode(Head(filter_list))).name,
                  kernel |-> FilterKernel(Head(filter_list))]>>)
         \o FilterStages(Tail(filter_list))

\* ImageFilterPipeline(filter_string): the three lists of the object
ImageFilterPipeline(filter_string) ==
    [k |-> "pipeline", img |-> Unset, filtered_img |-> Unset,
     img_filter |-> [i \in DOMAIN FilterStages(Split(filter_string, "-")) |->
                        [flt |-> FilterStages(Split(filter_string, "-"))[i].flt,
                         kernel |-> FilterStages(Split(filter_string, "-"))[i].kernel]],
     img_filter_name |-> [i \in DOMAIN FilterStages(Split(filter_string, "-")) |->
                             FilterStages(Split(filter_string, "-"))[i].name],
     img_filter_kernel |-> [i \in DOMAIN FilterStages(Split(filter_string, "-")) |->
                               FilterStages(Split(filter_string, "-"))[i].kernel]]

compute_adaptive_filter(filter_string) ==
    CASE filter_string = "brainregister:autofl-filter" -> ImageFilterPipeline("M,4,4,4")
      [] filter_string = "none" -> None
      [] OTHER -> ImageFilterPipeline(filter_string)

\* a median filter sized from the scale factors of the other direction
compute_adaptive_filter_img_ds_swapped(m) ==
    ImageFilterPipeline(
        "M," \o ToString(RoundHalfEven(IF m.downsampling_img = "source" THEN m.s2t[1]
                                       ELSE m.t2s[1], 2 * Micro))
        \o "," \o ToString(RoundHalfEven(IF m.downsampling_img = "source" THEN m.s2t[2]
                                         ELSE m.t2s[2], 2 * Micro))
        \o "," \o ToString(RoundHalfEven(IF m.downsampling_img = "source" THEN m.s2t[3]
                                         ELSE m.t2s[3], 2 * Micro)))

\* a median filter of radius round(scale factor / 2) per axis
compute_adaptive_filter_img_ds(m) ==
    ImageFilterPipeline(
        "M," \o ToString(RoundHalfEven(IF m.downsampling_img = "source" THEN m.t2s[1]
                                       ELSE m.s2t[1], 2 * Micro))
        \o "," \o ToString(RoundHalfEven(IF m.downsampling_img = "source" THEN m.t2s[2]
                                         ELSE m.s2t[2], 2 * Micro))
        \o "," \o ToString(RoundHalfEven(IF m.downsampling_img = "source" THEN m.t2s[3]
                                         ELSE m.s2t[3], 2 * Micro)))

\* the methods of ImageFilterPipeline apply_adaptive_filter calls, on the
\* attributes of the object
set_image(filter_pipeline, img) == [filter_pipeline EXCEPT !.img = img]

\* every stage is executed on the result of the stage before it
execute_pipeline(filter_pipeline) ==
    [filter_pipeline EXCEPT !.filtered_img =
        [filter_pipeline.img EXCEPT !.filt = @ \o filter_pipeline.img_filter]]

dereference_image(filter_pipeline) == [filter_pipeline EXCEPT !.img = None]

get_filtered_image(filter_pipeline) == filter_pipeline.filtered_img

\* the filtered image is returned; no pipeline returns the image itself
apply_adaptive_filter(s, img, filter_pipeline) ==
    IF ~Ok(s) THEN s
    ELSE IF filter_pipeline.k = "Unset" THEN Fail(s, "AttributeError")
    ELSE IF IsNone(filter_pipeline) THEN Ret(s, img)
    ELSE IF IsNone(img) THEN Fail(s, "TypeError")
    ELSE Ret(s, get_filtered_image(
                    dereference_image(execute_pipeline(set_image(filter_pipeline, img)))))

\* the pipeline object self.<pipe> after apply_adaptive_filter was called on
\* it with img (t: the state the call left)
PipelineAfter(t, pipe, img, filter_pipeline) ==
    IF filter_pipeline.k # "pipeline" THEN t
    ELSE IF ~Ok(t) THEN [t EXCEPT !.mem[pipe] = set_image(filter_pipeline, img)]
    ELSE [t EXCEPT !.mem[pipe] =
              dereference_image(execute_pipeline(set_image(filter_pipeline, img)))]

\* self.<dst> = self.apply_adaptive_filter(self.<src>, self.<pipe>)
FilterInto(s, dst, src, pipe) ==
    IF ~Ok(s) THEN s
    ELSE StoreRet(PipelineAfter(apply_adaptive_filter(s, s.mem[src], s.mem[pipe]),
                                pipe, s.mem[src], s.mem[pipe]),
                  dst)

\* apply_adaptive_filter(<the value just returned>, self.<pipe>)
FilterRet(s, pipe) ==
    IF ~Ok(s) THEN s
    ELSE PipelineAfter(apply_adaptive_filter(s, s.ret, s.mem[pipe]),
                       pipe, s.ret, s.mem[pipe])

-----------------------------------------------------------------------------
(* Registration engine *)

\* the transform parameter map elastix writes for one stage
RegistrationMap(c, name, stage, moving_img, fixed_img) ==
    [k |-> "pm", name |-> name, kind |-> "reg", stage |-> stage,
     from |-> moving_img.space, to |-> fixed_img.space,
     tp |-> <<0, 0, 0>>, fix |-> fixed_img.res, order |-> c.order]

\* the image elastix returns: the moving image on the grid of the fixed image
Registered(c, name, moving_img, fixed_img, n) ==
    [moving_img EXCEPT !.space = fixed_img.space, !.res = fixed_img.res,
                       !.via = Append(@, [name |-> name,
                                          orders |-> [i \in 1..n |-> c.order]])]

\* elastix on (moving, fixed): one TransformParameters file per stage is left
\* in the working directory, less the last c.lost ones the engine did not
\* write; the moving image on the fixed grid is returned
register_image(s, c, name, moving_img, fixed_img, n) ==
    IF ~Ok(s) THEN s
    ELSE IF moving_img.k # "img" \/ fixed_img.k # "img" THEN Fail(s, "TypeError")
    ELSE [s EXCEPT
            !.log = Append(@, [op |-> "elastix", name |-> name,
                               moving |-> moving_img, fixed |-> fixed_img]),
            !.disk = [p \in Paths |->
                        IF p[1] = "TransformParameters" /\ p[2] < n - c.lost
                        THEN RegistrationMap(c, name, p[2], moving_img, fixed_img)
                        ELSE @[p]],
            !.ret = Registered(c, name, moving_img, fixed_img, n)]
-----------------------------------------------------------------------------
(* Construction: BrainRegister(yaml_path) *)

\* load_params: a zero source resolution ends the process
load_params(s, c) ==
    IF ~Ok(s) THEN s
    ELSE IF \E k \in 1..3 : c.src_res[k] = 0 THEN Fail(s, "SystemExit")
    ELSE s

NoneList(n) == [i \in 1..n |-> None]

\* resolve_source_params and resolve_target_params: every image attribute None
ImageAttributes(c) ==
    [source_template_img |-> None, source_template_img_filt |-> None,
     source_template_img_ds |-> None, source_template_img_ds_filt |-> None,
     source_template_img_target |-> None, source_template_img_target_filt |-> None,
     target_template_img |-> None, target_template_img_filt |-> None,
     target_template_img_ds |-> None, target_template_img_ds_filt |-> None,
     target_template_img_source |-> None, target_template_img_source_filt |-> Unset,
     source_anno_img |-> NoneList(c.n_src_anno),
     source_anno_img_target |-> NoneList(c.n_src_anno),
     source_image_img |-> NoneList(c.n_src_img),
     source_image_img_target |-> NoneList(c.n_src_img),
     target_anno_img |-> NoneList(c.n_tar_anno),
     target_anno_img_source |-> NoneList(c.n_tar_anno),
     target_image_imgs |-> NoneList(c.n_tar_img),
     target_image_imgs_source |-> NoneList(c.n_tar_img)]

OtherAttributes ==
    [src_tar_ds_pm |-> None, tar_src_ds_pm |-> None, src_tar_pm |-> None, tar_src_pm |-> None,
     src_tar_ds_pm_anno |-> None, src_tar_pm_anno |-> None,
     tar_src_ds_pm_anno |-> None, tar_src_pm_anno |-> None,
     s2t |-> <<0, 0, 0>>, t2s |-> <<0, 0, 0>>, downsampling_img |-> "",
     src_tar_prefiltered |-> FALSE, tar_src_prefiltered |-> FALSE,
     img_ds_filter_pipeline |-> Unset, src_tar_filter_pipeline |-> Unset,
     tar_src_filter_pipeline |-> Unset]

Merge(r1, r2) ==
    [f \in (DOMAIN r1) \cup (DOMAIN r2) |-> IF f \in DOMAIN r1 THEN r1[f] ELSE r2[f]]

\* the attributes resolve_params starts from
ResolveAttributes(s, c) ==
    IF ~Ok(s) THEN s ELSE [s EXCEPT !.mem = Merge(ImageAttributes(c), OtherAttributes)]

\* the four chains are loaded from the files that exist
LoadChains(s, c) ==
    load_pm_files(
        load_pm_files(
            load_pm_files(
                load_pm_files(s, c, "src_tar_ds_pm", "src_tar_ds_pm_path"),
                c, "tar_src_ds_pm", "tar_src_ds_pm_path"),
            c, "src_tar_pm", "src_tar_pm_paths"),
        c, "tar_src_pm", "tar_src_pm_paths")

\* the annotation variants of a direction are derived if it has annotations
DeriveAnno(s, n, ds_pm, pm) ==
    IF ~Ok(s) \/ n = 0 THEN s
    ELSE edit_pms_nearest_neighbour(edit_pms_nearest_neighbour(s, ds_pm), pm)

\* the resolution part of resolve_params: scale factors, then the decision
ResolveScale(s, c) ==
    IF ~Ok(s) THEN s
    ELSE IF \E k \in 1..3 : c.tar_res[k] = 0 \/ c.src_res[k] = 0
         THEN Fail(s, "ZeroDivisionError")
    ELSE [s EXCEPT !.mem.s2t = get_source_target_scale_factors(c).s2t,
                   !.mem.t2s = get_source_target_scale_factors(c).t2s,
                   !.mem.downsampling_img =
                       decide_downsampling(get_source_target_scale_factors(c).s2t,
                                           get_source_target_scale_factors(c).t2s)]

\* a resolve_params that compares the counts after loading the chains
resolve_params_late(s, c) ==
    IF ~Ok(s) THEN s
    ELSE IF c.n_t2s # c.n_t2s_ep \/ c.n_s2t # c.n_s2t_ep
         THEN Fail(LoadChains(s, c), "SystemExit")
    ELSE ResolveScale(
             DeriveAnno(
                 DeriveAnno(LoadChains(s, c), c.n_src_anno, "src_tar_ds_pm", "src_tar_pm"),
                 c.n_tar_anno, "tar_src_ds_pm", "tar_src_pm"), c)

\* resolve_params: the counts are validated, the chains on disk are loaded,
\* the annotation variants are derived, the decision is taken
resolve_params(s, c) ==
    IF ~Ok(s) THEN s
    ELSE IF c.n_t2s # c.n_t2s_ep \/ c.n_s2t # c.n_s2t_ep THEN Fail(s, "SystemExit")
    ELSE ResolveScale(
             DeriveAnno(
                 DeriveAnno(LoadChains(s, c), c.n_src_anno, "src_tar_ds_pm", "src_tar_pm"),
                 c.n_tar_anno, "tar_src_ds_pm", "tar_src_pm"), c)

initialise_brainregister(s, c) ==
    resolve_params(ResolveAttributes(load_params(s, c), c), c)

\* create_output_dirs: the source-to-target and the target-to-source
\* directory (index 0 and 1) are made unless they exist
create_output_dirs(s) ==
    IF ~Ok(s) THEN s
    ELSE [s EXCEPT !.disk = [p \in Paths |->
                                IF p[1] = "output_dirs" /\ p[2] \in {0, 1} /\ IsNone(@[p])
                                THEN [k |-> "dir"] ELSE @[p]]]

\* the interpreter state at the start of a step, and the effect of a step
Enter ==
    [disk |-> disk, mem |-> mem, log |-> log, err |-> "", ret |-> None,
     astype |-> cfg.astype]

Leave(t, next, failed) ==
    /\ disk' = t.disk
    /\ mem' = t.mem
    /\ log' = IF Ok(t) THEN t.log ELSE Append(t.log, [op |-> "raise", err |-> t.err])
    /\ pc' = IF Ok(t) THEN next ELSE failed
    /\ UNCHANGED <<cfg, run>>

Construct ==
    /\ pc = "new"
    /\ Leave(create_output_dirs(initialise_brainregister(Enter, cfg)),
             "register_transform_highres_to_downsampled", "aborted")

-----------------------------------------------------------------------------
(* Raw space <-> downsampled space.  The image argument of a method that      *)
(* takes one is the value the call before it returned.                       *)

\* for i in 0 .. n-1 : s = Op(s, i)
ForEach(s, n, Op(_, _)) ==
    LET f[i \in 0..n] == IF i = 0 THEN s ELSE Op(f[i - 1], i - 1)
    IN  f[n]

\* the chain raw -> downsampled and the chain downsampled -> raw of a decision
ImgDsChain(d) == IF d = "source" THEN "src_tar_ds_pm" ELSE "tar_src_ds_pm"

DsImgChain(d) == IF d = "source" THEN "tar_src_ds_pm" ELSE "src_tar_ds_pm"

\* the name of the image-path list of a side
ImagePaths(side) == IF side = "source" THEN "source_image_path" ELSE "target_image_paths"

NImages(c, side) == IF side = "source" THEN c.n_src_img ELSE c.n_tar_img

NAnnos(c, side) == IF side = "source" THEN c.n_src_anno ELSE c.n_tar_anno

\* the yaml key prefix of the downsampling flags of a decision
DsKey(d) == IF d = "source" THEN "s2t_ds" ELSE "t2s_ds"

\* a grid size cut off instead of rounded
ScaledSizeTruncated(size, scale) == [k \in 1..3 |-> (size[k] * scale[k]) \div Micro]

\* round(size * scale) per axis, the scale factor held in millionths
ScaledSize(size, scale) == [k \in 1..3 |-> RoundHalfEven(size[k] * scale[k], Micro)]

\* a raw-to-downsampled scaling with the scale factors of the other direction
get_img_ds_scaling_inverse(m, c) ==
    CASE m.downsampling_img = "source" ->
             [k |-> "pms",
              stages |-> <<ScalingMap(c, "source", "src_tar_ds", m.s2t,
                                      ScaledSize(c.src_size, m.s2t))>>]
      [] m.downsampling_img = "target" ->
             [k |-> "pms",
              stages |-> <<ScalingMap(c, "target", "tar_src_ds", m.t2s,
                                      ScaledSize(c.tar_size, m.t2s))>>]
      [] OTHER -> None

get_img_ds_scaling(m, c) ==
    CASE m.downsampling_img = "source" ->
             [k |-> "pms",
              stages |-> <<ScalingMap(c, "source", "src_tar_ds", m.t2s,
                                      ScaledSize(c.src_size, m.s2t))>>]
      [] m.downsampling_img = "target" ->
             [k |-> "pms",
              stages |-> <<ScalingMap(c, "target", "tar_src_ds", m.s2t,
                                      ScaledSize(c.tar_size, m.t2s))>>]
      [] OTHER -> None

\* only the 'source' decision is handled: any other returns None
get_ds_img_scaling(m, c) ==
    IF m.downsampling_img = "source"
    THEN [k |-> "pms",
          stages |-> <<ScalingMap(c, "source", "tar_src_ds", m.s2t, c.src_size)>>]
    ELSE None

\* save_img_ds_pm_file / save_ds_img_pm_file: self.<f>[0] is written to its path
\* unless the file exists
SaveScaling(s, f) ==
    IF ~Ok(s) THEN s
    ELSE IF exists(s, <<f \o "_path", 0>>) THEN s
    ELSE IF IsNone(s.mem[f]) THEN Fail(s, "TypeError")
    ELSE WriteFile(s, <<f \o "_path", 0>>, s.mem[f].stages[1])

\* one half of generate_ds_scaling_param_files: synthesise and save, or load
GenerateOrLoad(s, c, f, pms) ==
    IF ~Ok(s) THEN s
    ELSE IF ~exists(s, <<f \o "_path", 0>>) THEN SaveScaling(SetMem(s, f, pms), f)
    ELSE load_pm_files(s, c, f, f \o "_path")

\* a generate_ds_scaling_param_files that settles on 'source' on its way
GenerateDsImgRedeciding(s, c) ==
    IF ~Ok(s) THEN s
    ELSE [GenerateOrLoad(s, c, DsImgChain(s.mem.downsampling_img),
                         get_ds_img_scaling(s.mem, c))
             EXCEPT !.mem.downsampling_img = "source"]

\* the chain into downsampled space, then the chain out of it
GenerateDsImg(s, c) ==
    IF ~Ok(s) THEN s
    ELSE GenerateOrLoad(s, c, DsImgChain(s.mem.downsampling_img), get_ds_img_scaling(s.mem, c))

generate_ds_scaling_param_files(s, c) ==
    IF ~Ok(s) THEN s
    ELSE GenerateDsImg(
             GenerateOrLoad(s, c, ImgDsChain(s.mem.downsampling_img),
                            get_img_ds_scaling(s.mem, c)), c)

\* if self.<f> == None: self.<f> = self.load_pm_files(...)   (an ERROR is only printed)
EnsureChain(s, c, f, paths) ==
    IF ~Ok(s) THEN s
    ELSE IF IsNone(s.mem[f]) THEN load_pm_files(s, c, f, paths) ELSE s

\* if self.<f>_anno == None: self.<f> is reloaded and self.<f>_anno derived from it
EnsureAnnoChain(s, c, f, paths) ==
    IF ~Ok(s) THEN s
    ELSE IF IsNone(s.mem[f \o "_anno"])
         THEN edit_pms_nearest_neighbour(load_pm_files(s, c, f, paths), f)
         ELSE s

\* a move into downsampled space that never filters
DsUnfiltered(s, c) == s

\* the downsampling filter, if requested, on the image just returned; the
\* pipeline is kept in the object
DsFiltered(s, c) ==
    IF ~Ok(s) \/ ~c.ds_filter THEN s
    ELSE FilterRet(SetMem(s, "img_ds_filter_pipeline", compute_adaptive_filter_img_ds(s.mem)),
                   "img_ds_filter_pipeline")

move_image_img_ds(s, c) ==
    IF ~Ok(s) THEN s
    ELSE IF s.mem.downsampling_img = "none" THEN Ret(s, None)
    ELSE TransformRet(EnsureChain(DsFiltered(s, c), c, ImgDsChain(s.mem.downsampling_img),
                                  ImgDsChain(s.mem.downsampling_img) \o "_path"),
                      ImgDsChain(s.mem.downsampling_img))

\* no downsampling filter for annotations
move_anno_img_ds(s, c) ==
    IF ~Ok(s) THEN s
    ELSE IF s.mem.downsampling_img = "none" THEN Ret(s, None)
    ELSE TransformRet(EnsureAnnoChain(s, c, ImgDsChain(s.mem.downsampling_img),
                                      ImgDsChain(s.mem.downsampling_img) \o "_path"),
                      ImgDsChain(s.mem.downsampling_img) \o "_anno")

move_image_ds_img(s, c) ==
    IF ~Ok(s) THEN s
    ELSE IF s.mem.downsampling_img = "none" THEN Ret(s, None)
    ELSE TransformRet(EnsureChain(s, c, DsImgChain(s.mem.downsampling_img),
                                  DsImgChain(s.mem.downsampling_img) \o "_path"),
                      DsImgChain(s.mem.downsampling_img))

\* the 'target' branch resamples with self.src_tar_ds_pm, not with its
\* annotation variant
move_anno_ds_img(s, c) ==
    IF ~Ok(s) THEN s
    ELSE IF s.mem.downsampling_img = "none" THEN Ret(s, None)
    ELSE TransformRet(EnsureAnnoChain(s, c, DsImgChain(s.mem.downsampling_img),
                                      DsImgChain(s.mem.downsampling_img) \o "_path"),
                      IF s.mem.downsampling_img = "source" THEN "tar_src_ds_pm_anno"
                      ELSE "src_tar_ds_pm")

-----------------------------------------------------------------------------
(* register_transform_highres_to_downsampled *)

\* if self.<field> == None: self.<field> = self.load_image(path)
EnsureLoaded(s, field, path) ==
    IF ~Ok(s) THEN s
    ELSE IF ~IsNone(s.mem[field]) THEN s
    ELSE StoreRet(load_image(s, path), field)

\* the downsampling filter, if requested, replaces the raw template held
DsFilterTemplate(s, c, raw) ==
    IF ~Ok(s) \/ ~c.ds_filter THEN s
    ELSE FilterInto(SetMem(s, "img_ds_filter_pipeline", compute_adaptive_filter_img_ds(s.mem)),
                    raw, raw, "img_ds_filter_pipeline")

\* the last branch of get_template_ds: the raw template of side d is loaded,
\* filtered if requested, resampled into downsampled space and held
MakeTemplateDs(s, c, d) ==
    StoreRet(
        TransformMem(
            DsFilterTemplate(
                EnsureChain(EnsureLoaded(s, d \o "_template_img", <<d \o "_template_path", 0>>),
                            c, ImgDsChain(d), ImgDsChain(d) \o "_path"),
                c, d \o "_template_img"),
            d \o "_template_img", ImgDsChain(d)),
        d \o "_template_img_ds")

\* the downsampled template of the decided side: loaded from its file if that
\* exists, else the held image, else the (filtered) raw template resampled
get_template_ds(s, c) ==
    IF ~Ok(s) THEN s
    ELSE IF s.mem.downsampling_img = "none" THEN Ret(s, None)
    ELSE IF exists(s, <<s.mem.downsampling_img \o "_template_path_ds", 0>>)
         THEN StoreRet(load_image(s, <<s.mem.downsampling_img \o "_template_path_ds", 0>>),
                       s.mem.downsampling_img \o "_template_img_ds")
    ELSE IF ~IsNone(s.mem[s.mem.downsampling_img \o "_template_img_ds"])
         THEN Ret(s, s.mem[s.mem.downsampling_img \o "_template_img_ds"])
    ELSE MakeTemplateDs(s, c, s.mem.downsampling_img)

\* the 'target' branch tests self.template_ds_img, which no code assigns
save_template_ds(s, c) ==
    IF ~Ok(s) THEN s
    ELSE IF s.mem.downsampling_img = "source"
         THEN IF c.save.s2t_ds_save_template /\ ~IsNone(s.mem.source_template_img_ds)
              THEN save_image(s, s.mem.source_template_img_ds, <<"source_template_path_ds", 0>>)
              ELSE s
    ELSE IF s.mem.downsampling_img = "target"
         THEN IF c.save.t2s_ds_save_template THEN Fail(s, "AttributeError") ELSE s
    ELSE s

\* the raw template is released once its downsampled version is saved
transform_save_high_ds_template(s, c) ==
    IF ~Ok(s) THEN s
    ELSE IF s.mem.downsampling_img = "none" THEN s
    ELSE IF ~c.save[DsKey(s.mem.downsampling_img) \o "_save_template"] THEN s
    ELSE IF exists(s, <<s.mem.downsampling_img \o "_template_path_ds", 0>>) THEN s
    ELSE Assign(save_template_ds(
                    StoreRet(get_template_ds(s, c),
                             s.mem.downsampling_img \o "_template_img_ds"), c),
                s.mem.downsampling_img \o "_template_img", None)

save_anno_ds(s, index) ==
    IF ~Ok(s) THEN s
    ELSE IF exists(s, <<s.mem.downsampling_img \o "_anno_path_ds", index>>) THEN s
    ELSE save_image(s, s.ret, <<s.mem.downsampling_img \o "_anno_path_ds", index>>)

save_image_ds(s, index) ==
    IF ~Ok(s) THEN s
    ELSE IF exists(s, <<ImagePaths(s.mem.downsampling_img) \o "_ds", index>>) THEN s
    ELSE save_image(s, s.ret, <<ImagePaths(s.mem.downsampling_img) \o "_ds", index>>)

\* the annotation is loaded from its downsampled path (the file found missing)
process_anno_ds(s, c, index) ==
    IF ~Ok(s) THEN s
    ELSE IF exists(s, <<s.mem.downsampling_img \o "_anno_path_ds", index>>) THEN s
    ELSE save_anno_ds(
             move_anno_img_ds(
                 load_image(s, <<s.mem.downsampling_img \o "_anno_path_ds", index>>), c),
             index)

process_image_ds(s, c, index) ==
    IF ~Ok(s) THEN s
    ELSE IF exists(s, <<ImagePaths(s.mem.downsampling_img) \o "_ds", index>>) THEN s
    ELSE save_image_ds(
             move_image_img_ds(
                 load_image(s, <<ImagePaths(s.mem.downsampling_img), index>>), c),
             index)

transform_save_high_ds_anno(s, c) ==
    IF ~Ok(s) THEN s
    ELSE IF s.mem.downsampling_img = "none" THEN s
    ELSE IF ~c.save[DsKey(s.mem.downsampling_img) \o "_save_annotations"] THEN s
    ELSE ForEach(s, NAnnos(c, s.mem.downsampling_img),
                 LAMBDA t, i : process_anno_ds(t, c, i))

transform_save_high_ds_images(s, c) ==
    IF ~Ok(s) THEN s
    ELSE IF s.mem.downsampling_img = "none" THEN s
    ELSE IF ~c.save[DsKey(s.mem.downsampling_img) \o "_save_images"] THEN s
    ELSE ForEach(s, NImages(c, s.mem.downsampling_img),
                 LAMBDA t, i : process_image_ds(t, c, i))

register_transform_highres_to_downsampled(s, c) ==
    IF s.mem.downsampling_img = "none" THEN s
    ELSE transform_save_high_ds_images(
             transform_save_high_ds_anno(
                 transform_save_high_ds_template(
                     generate_ds_scaling_param_files(s, c), c), c), c)

-----------------------------------------------------------------------------
(* register_source_to_target, register_target_to_source *)

\* src_tar_pm_files_exist / tar_src_pm_files_exist: every file of the list exists
pm_files_exist(s, paths, n) == \A i \in 0..(n - 1) : exists(s, <<paths, i>>)

\* the TransformParameters.* files of the working directory in ascending name
\* order (the order of the stage numbers, for fewer than ten stages)
RECURSIVE transform_params(_, _)
transform_params(s, i) ==
    IF i > PathTop THEN <<>>
    ELSE (IF exists(s, <<"TransformParameters", i>>) THEN <<i>> ELSE <<>>)
             \o transform_params(s, i + 1)

\* os.rename(tp, pm_paths[i]): the destination is replaced if it exists
Rename(s, tp, paths, i, n) ==
    IF ~Ok(s) THEN s
    ELSE IF i >= n THEN Fail(s, "IndexError")
    ELSE [WriteFile(s, <<paths, i>>, s.disk[<<"TransformParameters", tp>>])
            EXCEPT !.disk[<<"TransformParameters", tp>>] = None]

save_pm_files(s, paths, n) ==
    IF ~Ok(s) THEN s
    ELSE ForEach(s, Len(transform_params(s, 0)),
                 LAMBDA t, i : Rename(t, transform_params(s, 0)[i + 1], paths, i, n))

\* the downsampled template is taken from memory, else from its file, else made
EnsureTemplateDs(s, c) ==
    IF ~Ok(s) THEN s
    ELSE IF ~IsNone(s.mem[s.mem.downsampling_img \o "_template_img_ds"]) THEN s
    ELSE IF exists(s, <<s.mem.downsampling_img \o "_template_path_ds", 0>>)
         THEN EnsureLoaded(s, s.mem.downsampling_img \o "_template_img_ds",
                           <<s.mem.downsampling_img \o "_template_path_ds", 0>>)
    ELSE StoreRet(get_template_ds(s, c), s.mem.downsampling_img \o "_template_img_ds")

\* the templates both registrations start from
LoadTemplates(s, c) ==
    CASE s.mem.downsampling_img = "source" ->
             EnsureLoaded(EnsureTemplateDs(s, c),
                          "target_template_img", <<"target_template_path", 0>>)
      [] s.mem.downsampling_img = "target" ->
             EnsureTemplateDs(EnsureLoaded(s, "source_template_img",
                                           <<"source_template_path", 0>>), c)
      [] OTHER ->
             EnsureLoaded(EnsureLoaded(s, "source_template_img",
                                       <<"source_template_path", 0>>),
                          "target_template_img", <<"target_template_path", 0>>)

\* a router that registers the raw templates whatever the decision
RegistrationImagesRaw(d, filtered) ==
    [source |-> "source_template_img", target |-> "target_template_img"]

\* the attributes handed to elastix: the downsampled side uses its _ds image,
\* a prefiltered registration the _filt images
RegistrationImages(d, filtered) ==
    [source |-> "source_template_img" \o (IF d = "source" THEN "_ds" ELSE "")
                                      \o (IF filtered THEN "_filt" ELSE ""),
     target |-> "target_template_img" \o (IF d = "target" THEN "_ds" ELSE "")
                                      \o (IF filtered THEN "_filt" ELSE "")]

\* filter self.<src> into self.<dst> unless self.<test> is held and the
\* source-to-target prefilter flag is set
Prefilter(s, dst, src, test, pipe) ==
    IF ~Ok(s) THEN s
    ELSE IF ~IsNone(s.mem[test]) /\ s.mem.src_tar_prefiltered THEN s
    ELSE FilterInto(s, dst, src, pipe)

\* self.src_tar_prefiltered, self.tar_src_prefiltered = a, b
SetPrefiltered(s, a, b) ==
    IF ~Ok(s) THEN s
    ELSE [s EXCEPT !.mem.src_tar_prefiltered = a, !.mem.tar_src_prefiltered = b]

\* the source template a prefilter works on
PrefilterSource(d) == IF d = "source" THEN "source_template_img_ds" ELSE "source_template_img"

\* the 'none' branch filters the downsampled target template
src_tar_prefiltering(s, c) ==
    IF ~Ok(s) \/ c.s2t_filter = "none" THEN s
    ELSE SetPrefiltered(
             Prefilter(
                 Prefilter(SetMem(s, "src_tar_filter_pipeline",
                                  compute_adaptive_filter(c.s2t_filter)),
                           PrefilterSource(s.mem.downsampling_img) \o "_filt",
                           PrefilterSource(s.mem.downsampling_img),
                           PrefilterSource(s.mem.downsampling_img) \o "_filt",
                           "src_tar_filter_pipeline"),
                 IF s.mem.downsampling_img = "none" THEN "target_template_img_ds_filt"
                 ELSE "target_template_img_filt",
                 IF s.mem.downsampling_img = "none" THEN "target_template_img_ds"
                 ELSE "target_template_img",
                 IF s.mem.downsampling_img = "none" THEN "target_template_img_ds_filt"
                 ELSE "target_template_img_filt",
                 "src_tar_filter_pipeline"),
             TRUE, FALSE)

\* the pipeline a target-to-source prefilter applies: only the 'source' branch
\* uses the target-to-source pipeline
TarSrcPipeline(d) ==
    IF d = "source" THEN "tar_src_filter_pipeline" ELSE "src_tar_filter_pipeline"

\* every branch tests the source-to-target flag
tar_src_prefiltering(s, c) ==
    IF ~Ok(s) \/ c.t2s_filter = "none" THEN s
    ELSE SetPrefiltered(
             Prefilter(
                 Prefilter(SetMem(s, "tar_src_filter_pipeline",
                                  compute_adaptive_filter(c.t2s_filter)),
                           PrefilterSource(s.mem.downsampling_img) \o "_filt",
                           PrefilterSource(s.mem.downsampling_img),
                           PrefilterSource(s.mem.downsampling_img) \o "_filt",
                           TarSrcPipeline(s.mem.downsampling_img)),
                 "target_template_img_filt", "target_template_img",
                 IF s.mem.downsampling_img = "none" THEN "target_template_img_ds_filt"
                 ELSE "target_template_img_filt",
                 TarSrcPipeline(s.mem.downsampling_img)),
             FALSE, TRUE)

\* elastix with the source template moving and the target template fixed
RegisterSrcTar(s, c) ==
    IF ~Ok(s) THEN s
    ELSE StoreRet(
             register_image(s, c, "src_tar",
                 s.mem[RegistrationImages(s.mem.downsampling_img,
                                          s.mem.src_tar_prefiltered).source],
                 s.mem[RegistrationImages(s.mem.downsampling_img,
                                          s.mem.src_tar_prefiltered).target],
                 c.n_s2t_ep),
             IF s.mem.src_tar_prefiltered THEN "source_template_img_target_filt"
             ELSE "source_template_img_target")

\* elastix with the target template moving and the source template fixed
RegisterTarSrc(s, c) ==
    IF ~Ok(s) THEN s
    ELSE StoreRet(
             register_image(s, c, "tar_src",
                 s.mem[RegistrationImages(s.mem.downsampling_img,
                                          s.mem.tar_src_prefiltered).target],
                 s.mem[RegistrationImages(s.mem.downsampling_img,
                                          s.mem.tar_src_prefiltered).source],
                 c.n_t2s_ep),
             IF s.mem.tar_src_prefiltered THEN "target_template_img_source_filt"
             ELSE "target_template_img_source")

\* a register_source_to_target that registers whatever the directory holds
register_source_to_target_always(s, c) ==
    IF ~Ok(s) THEN s
    ELSE save_pm_files(RegisterSrcTar(src_tar_prefiltering(LoadTemplates(s, c), c), c),
                       "src_tar_pm_paths", c.n_s2t)

register_source_to_target(s, c) ==
    IF ~Ok(s) \/ pm_files_exist(s, "src_tar_pm_paths", c.n_s2t) THEN s
    ELSE save_pm_files(RegisterSrcTar(src_tar_prefiltering(LoadTemplates(s, c), c), c),
                       "src_tar_pm_paths", c.n_s2t)

register_target_to_source(s, c) ==
    IF ~Ok(s) \/ pm_files_exist(s, "tar_src_pm_paths", c.n_t2s) THEN s
    ELSE save_pm_files(RegisterTarSrc(tar_src_prefiltering(LoadTemplates(s, c), c), c),
                       "tar_src_pm_paths", c.n_t2s)

\* save_pm_files when the process is killed after k renames
save_pm_files_killed(s, paths, n, k) ==
    IF ~Ok(s) THEN s
    ELSE ForEach(s, k, LAMBDA t, i : Rename(t, transform_params(s, 0)[i + 1], paths, i, n))

\* register_source_to_target killed inside save_pm_files
register_source_to_target_killed(s, c, k) ==
    save_pm_files_killed(RegisterSrcTar(src_tar_prefiltering(LoadTemplates(s, c), c), c),
                         "src_tar_pm_paths", c.n_s2t, k)

\* register_target_to_source killed inside save_pm_files
register_target_to_source_killed(s, c, k) ==
    save_pm_files_killed(RegisterTarSrc(tar_src_prefiltering(LoadTemplates(s, c), c), c),
                         "tar_src_pm_paths", c.n_t2s, k)

-----------------------------------------------------------------------------
(* transform_source_to_target, transform_target_to_source *)

Other(side) == IF side = "source" THEN "target" ELSE "source"

\* the registration chain that moves the images of a side to the other side
AcrossChain(side) == IF side = "source" THEN "src_tar_pm" ELSE "tar_src_pm"

AcrossPaths(side) == IF side = "source" THEN "src_tar_pm_paths" ELSE "tar_src_pm_paths"

\* the raw template of `side' is loaded and its registration chain ensured
RawTemplateAndChain(s, c, side) ==
    EnsureChain(EnsureLoaded(s, side \o "_template_img", <<side \o "_template_path", 0>>),
                c, AcrossChain(side), AcrossPaths(side))

\* the resampling branch of get_src_template_tar / get_tar_template_src, per
\* decision d: from the downsampled template if `side' is the downsampled one,
\* with chain `applied' if there is no downsampling, else through downsampled
\* space and back to raw space
ResampleTemplateAcross(s, c, side, applied, d) ==
    IF d = side
    THEN TransformMem(
             EnsureChain(StoreRet(get_template_ds(s, c), side \o "_template_img_ds"),
                         c, AcrossChain(side), AcrossPaths(side)),
             side \o "_template_img_ds", AcrossChain(side))
    ELSE IF d = "none"
         THEN TransformMem(RawTemplateAndChain(s, c, side), side \o "_template_img", applied)
    ELSE move_image_ds_img(
             TransformMem(RawTemplateAndChain(s, c, side),
                          side \o "_template_img", AcrossChain(side)), c)

\* get_src_template_tar / get_tar_template_src: the template of `side' in the
\* space of the other side.  The file is loaded if it exists, the held image
\* returned if there is one; otherwise the template is resampled.
GetTemplateAcross(s, c, side, applied) ==
    IF ~Ok(s) THEN s
    ELSE IF exists(s, <<side \o "_template_path_" \o Other(side), 0>>)
         THEN StoreRet(load_image(s, <<side \o "_template_path_" \o Other(side), 0>>),
                       side \o "_template_img_" \o Other(side))
    ELSE IF ~IsNone(s.mem[side \o "_template_img_" \o Other(side)])
         THEN Ret(s, s.mem[side \o "_template_img_" \o Other(side)])
    ELSE ResampleTemplateAcross(s, c, side, applied, s.mem.downsampling_img)

get_src_template_tar(s, c) == GetTemplateAcross(s, c, "source", "src_tar_pm")

\* without downsampling the target template is resampled with self.src_tar_pm
get_tar_template_src(s, c) == GetTemplateAcross(s, c, "target", "src_tar_pm")

save_src_template_tar(s) ==
    IF ~Ok(s) \/ exists(s, <<"source_template_path_target", 0>>) THEN s
    ELSE IF IsNone(s.mem.source_template_img_target) THEN s
    ELSE save_image(s, s.mem.source_template_img_target, <<"source_template_path_target", 0>>)

\* the guard tests self.source_template_img_target
save_tar_template_src(s) ==
    IF ~Ok(s) \/ exists(s, <<"target_template_path_source", 0>>) THEN s
    ELSE IF IsNone(s.mem.source_template_img_target) THEN s
    ELSE save_image(s, s.mem.target_template_img_source, <<"target_template_path_source", 0>>)

\* the image a sample of `side' is resampled from: its downsampled file, the
\* raw file moved into downsampled space (by `Move'), or the raw file
SampleInput(s, c, side, raw, ds, Move(_, _)) ==
    IF ~Ok(s) THEN s
    ELSE IF s.mem.downsampling_img = side /\ exists(s, ds) THEN load_image(s, ds)
    ELSE IF s.mem.downsampling_img = side THEN Move(load_image(s, raw), c)
    ELSE load_image(s, raw)

\* a sample that went through the downsampled space of the other side is moved
\* back to raw space (by `Move')
SampleOutput(s, c, side, Move(_, _)) ==
    IF ~Ok(s) THEN s
    ELSE IF s.mem.downsampling_img = Other(side) THEN Move(s, c)
    ELSE s

\* get_src_anno_tar / get_tar_anno_src: an annotation of `side' in the space of
\* the other side, resampled with the annotation variants of the chains
GetAnnoAcross(s, c, side, index) ==
    IF ~Ok(s) THEN s
    ELSE IF exists(s, <<side \o "_anno_path_" \o Other(side), index>>)
         THEN load_image(s, <<side \o "_anno_path_" \o Other(side), index>>)
    ELSE IF ~IsNone(s.mem[side \o "_anno_img_" \o Other(side)][index + 1])
         THEN Ret(s, s.mem[side \o "_anno_img_" \o Other(side)][index + 1])
    ELSE SampleOutput(
             TransformRet(
                 EnsureAnnoChain(
                     SampleInput(s, c, side, <<side \o "_anno_path", index>>,
                                 <<side \o "_anno_path_ds", index>>, move_anno_img_ds),
                     c, AcrossChain(side), AcrossPaths(side)),
                 AcrossChain(side) \o "_anno"),
             c, side, move_anno_ds_img)

get_src_anno_tar(s, c, index) == GetAnnoAcross(s, c, "source", index)

get_tar_anno_src(s, c, index) == GetAnnoAcross(s, c, "target", index)

get_src_image_tar(s, c, index) ==
    IF ~Ok(s) THEN s
    ELSE IF exists(s, <<"source_image_path_target", index>>)
         THEN load_image(s, <<"source_image_path_target", index>>)
    ELSE IF ~IsNone(s.mem.source_image_img_target[index + 1])
         THEN Ret(s, s.mem.source_image_img_target[index + 1])
    ELSE SampleOutput(
             TransformRet(
                 EnsureChain(
                     SampleInput(s, c, "source", <<"source_image_path", index>>,
                                 <<"source_image_path_ds", index>>, move_image_img_ds),
                     c, "src_tar_pm", "src_tar_pm_paths"),
                 "src_tar_pm"),
             c, "source", move_image_ds_img)

\* reads self.target_image_img_source and self.target_image_path, which do not
\* exist: only an existing output file of the 'target' decision is served
get_tar_image_src(s, c, index) ==
    IF ~Ok(s) THEN s
    ELSE IF s.mem.downsampling_img = "target" /\ exists(s, <<"target_image_paths_source", index>>)
         THEN load_image(s, <<"target_image_paths_source", index>>)
    ELSE Fail(s, "AttributeError")

\* save_src_anno_tar, save_src_image_tar, save_tar_anno_src, save_tar_image_src
\* on the image just returned
SaveAcross(s, p) ==
    IF ~Ok(s) \/ exists(s, p) THEN s ELSE save_image(s, s.ret, p)

\* the template part of transform_source_to_target
SrcTemplateTar(s, c) ==
    IF ~Ok(s) \/ ~c.save.s2t_save_template THEN s
    ELSE IF exists(s, <<"source_template_path_target", 0>>) THEN s
    ELSE save_src_template_tar(StoreRet(get_src_template_tar(s, c),
                                        "source_template_img_target"))

\* the annotation part of transform_source_to_target
SrcAnnosTar(s, c) ==
    IF ~Ok(s) \/ ~c.save.s2t_save_annotations THEN s
    ELSE ForEach(s, c.n_src_anno, LAMBDA t, i :
             SaveAcross(get_src_anno_tar(t, c, i), <<"source_anno_path_target", i>>))

\* the image part of transform_source_to_target
SrcImagesTar(s, c) ==
    IF ~Ok(s) \/ ~c.save.s2t_save_images THEN s
    ELSE ForEach(s, c.n_src_img, LAMBDA t, i :
             SaveAcross(get_src_image_tar(t, c, i), <<"source_image_path_target", i>>))

transform_source_to_target(s, c) ==
    SrcImagesTar(SrcAnnosTar(SrcTemplateTar(s, c), c), c)

\* the template part of transform_target_to_source
TarTemplateSrc(s, c) ==
    IF ~Ok(s) \/ ~c.save.t2s_save_template THEN s
    ELSE IF exists(s, <<"target_template_path_source", 0>>) THEN s
    ELSE save_tar_template_src(StoreRet(get_tar_template_src(s, c),
                                        "target_template_img_source"))

\* the annotation part of transform_target_to_source
TarAnnosSrc(s, c) ==
    IF ~Ok(s) \/ ~c.save.t2s_save_annotations THEN s
    ELSE ForEach(s, c.n_tar_anno, LAMBDA t, i :
             SaveAcross(get_tar_anno_src(t, c, i), <<"target_anno_path_source", i>>))

\* the image part of transform_target_to_source
TarImagesSrc(s, c) ==
    IF ~Ok(s) \/ ~c.save.t2s_save_images THEN s
    ELSE ForEach(s, c.n_tar_img, LAMBDA t, i :
             SaveAcross(get_tar_image_src(t, c, i), <<"target_image_paths_source", i>>))

transform_target_to_source(s, c) ==
    TarImagesSrc(TarAnnosSrc(TarTemplateSrc(s, c), c), c)

-----------------------------------------------------------------------------
(* transform_lowres_to_downsampled, save_target_params *)

\* the template of the lower-resolution side is resampled into downsampled
\* space with the registration chain and saved; the raw template is released
LowDsTemplate(s, c, side) ==
    IF ~c.save[DsKey(side) \o "_save_template"] THEN s
    ELSE IF exists(s, <<side \o "_template_path_ds", 0>>) THEN s
    ELSE Assign(
             SaveRet(
                 TransformMem(RawTemplateAndChain(s, c, side),
                              side \o "_template_img", AcrossChain(side)),
                 <<side \o "_template_path_ds", 0>>),
             side \o "_template_img", None)

transform_save_low_ds_template(s, c) ==
    IF ~Ok(s) THEN s ELSE LowDsTemplate(s, c, Other(s.mem.downsampling_img))

\* the held image of a list, else the image loaded from its path
HeldOrLoaded(s, list, path, i) ==
    IF ~Ok(s) THEN s
    ELSE IF IsNone(s.mem[list][i + 1]) THEN load_image(s, <<path, i>>)
    ELSE Ret(s, s.mem[list][i + 1])

\* the annotation variant is derived only when the continuous chain is not held
AnnoChainIfUnheld(s, c, f, paths) ==
    IF ~Ok(s) THEN s
    ELSE IF IsNone(s.mem[f])
         THEN edit_pms_nearest_neighbour(load_pm_files(s, c, f, paths), f)
    ELSE s

LowDsAnno(s, c, side, i) ==
    IF ~Ok(s) \/ exists(s, <<side \o "_anno_path_ds", i>>) THEN s
    ELSE SaveRet(
             TransformRet(
                 AnnoChainIfUnheld(
                     HeldOrLoaded(s, side \o "_anno_img", side \o "_anno_path", i),
                     c, AcrossChain(side), AcrossPaths(side)),
                 AcrossChain(side) \o "_anno"),
             <<side \o "_anno_path_ds", i>>)

transform_save_low_ds_anno(s, c) ==
    IF ~Ok(s) THEN s
    ELSE IF ~c.save[DsKey(Other(s.mem.downsampling_img)) \o "_save_annotations"] THEN s
    ELSE ForEach(s, NAnnos(c, Other(s.mem.downsampling_img)),
                 LAMBDA t, i : LowDsAnno(t, c, Other(s.mem.downsampling_img), i))

LowDsImage(s, c, i) ==
    IF ~Ok(s) \/ exists(s, <<"target_image_paths_ds", i>>) THEN s
    ELSE SaveRet(
             TransformRet(
                 EnsureChain(
                     HeldOrLoaded(s, "target_image_imgs", "target_image_paths", i),
                     c, "tar_src_pm", "tar_src_pm_paths"),
                 "tar_src_pm"),
             <<"target_image_paths_ds", i>>)

\* the 'target' branch reads self.source_image_paths, which does not exist
transform_save_low_ds_images(s, c) ==
    IF ~Ok(s) THEN s
    ELSE IF s.mem.downsampling_img = "source"
         THEN IF ~c.save.t2s_ds_save_images THEN s
              ELSE ForEach(s, c.n_tar_img, LAMBDA t, i : LowDsImage(t, c, i))
    ELSE IF c.save.s2t_ds_save_images THEN Fail(s, "AttributeError")
    ELSE s

transform_lowres_to_downsampled(s, c) ==
    IF s.mem.downsampling_img = "none" THEN s
    ELSE transform_save_low_ds_images(
             transform_save_low_ds_anno(
                 transform_save_low_ds_template(s, c), c), c)

\* the target parameters file is dumped, read back and written again
save_target_params(s, c) ==
    WriteFile(WriteFile(s, <<"target_params_output_path", 0>>,
                        [k |-> "yaml", res |-> c.src_res]),
              <<"target_params_output_path", 0>>, [k |-> "yaml", res |-> c.src_res])

-----------------------------------------------------------------------------
(* Configurations and initial file systems *)

SaveKeys ==
    {"s2t_ds_save_template", "s2t_ds_save_annotations", "s2t_ds_save_images",
     "s2t_save_template", "s2t_save_annotations", "s2t_save_images",
     "t2s_ds_save_template", "t2s_ds_save_annotations", "t2s_ds_save_images",
     "t2s_save_template", "t2s_save_annotations", "t2s_save_images"}

\* interpolation order found in the elastix and scaling parameter files
FileOrders == {3}

DefaultConfig ==
    [src_res |-> <<10, 10, 10>>, tar_res |-> <<25, 25, 25>>,
     order |-> CHOOSE o \in FileOrders : TRUE,
     n_src_anno |-> 0, n_tar_anno |-> 0, n_src_img |-> 0, n_tar_img |-> 0,
     n_s2t |-> MaxStages, n_t2s |-> MaxStages,
     n_s2t_ep |-> MaxStages, n_t2s_ep |-> MaxStages,
     ds_filter |-> FALSE, s2t_filter |-> "none", t2s_filter |-> "none",
     save |-> [f \in SaveKeys |-> TRUE], lost |-> 0,
     src_size |-> <<4, 5, 8>>, tar_size |-> <<5, 8, 4>>,
     pixel |-> "16-bit unsigned integer", vals |-> {0, 200, 400}, astype |-> "wrap"]

\* the input data set: templates and as many annotations and images as configured
RawFile(c, p) ==
    CASE p = <<"source_template_path", 0>> -> RawImage(c, "template", "source", 0)
      [] p = <<"target_template_path", 0>> -> RawImage(c, "template", "target", 0)
      [] p[1] = "source_anno_path" /\ p[2] < c.n_src_anno -> RawImage(c, "anno", "source", p[2])
      [] p[1] = "target_anno_path" /\ p[2] < c.n_tar_anno -> RawImage(c, "anno", "target", p[2])
      [] p[1] = "source_image_path" /\ p[2] < c.n_src_img -> RawImage(c, "image", "source", p[2])
      [] p[1] = "target_image_paths" /\ p[2] < c.n_tar_img -> RawImage(c, "image", "target", p[2])
      [] OTHER -> None

FreshDisk(c) == [p \in Paths |-> RawFile(c, p)]

ResVals == {10, 25} \cup {5 * k : k \in 1..MaxRes}

ResVecs == ResVals \X ResVals \X ResVals

InitRes ==
    /\ cfg \in {[DefaultConfig EXCEPT !.src_res = sr, !.tar_res = tr] :
                    sr \in ResVecs, tr \in ResVecs}
    /\ disk = FreshDisk(cfg)
    /\ mem = None
    /\ log = <<>>
    /\ pc = "new"
    /\ run = 1

NextRes == Construct

SpecRes == InitRes /\ [][NextRes]_vars

-----------------------------------------------------------------------------
(* The process: construction, then the seven steps of register() *)

\* a register() that resamples target images before registering target to source
StepAfterSwapped(name) ==
    CASE name = "register_transform_highres_to_downsampled" -> "register_source_to_target"
      [] name = "register_source_to_target" -> "transform_source_to_target"
      [] name = "transform_source_to_target" -> "transform_target_to_source"
      [] name = "transform_target_to_source" -> "register_target_to_source"
      [] name = "register_target_to_source" -> "transform_lowres_to_downsampled"
      [] name = "transform_lowres_to_downsampled" -> "save_target_params"
      [] name = "save_target_params" -> "done"

\* register(): the method called after each method, "done" after the last
StepAfter(name) ==
    CASE name = "register_transform_highres_to_downsampled" -> "register_source_to_target"
      [] name = "register_source_to_target" -> "transform_source_to_target"
      [] name = "transform_source_to_target" -> "register_target_to_source"
      [] name = "register_target_to_source" -> "transform_target_to_source"
      [] name = "transform_target_to_source" -> "transform_lowres_to_downsampled"
      [] name = "transform_lowres_to_downsampled" -> "save_target_params"
      [] name = "save_target_params" -> "done"

\* the methods register() calls
StepNames ==
    <<"register_transform_highres_to_downsampled", "register_source_to_target",
      "transform_source_to_target", "register_target_to_source",
      "transform_target_to_source", "transform_lowres_to_downsampled",
      "save_target_params">>

\* one method of register(): an exception ends the process
Step(name, t) ==
    /\ pc = name
    /\ Leave(t, StepAfter(name), "crashed")

RegisterTransformHighresToDownsampled ==
    Step("register_transform_highres_to_downsampled",
         register_transform_highres_to_downsampled(Enter, cfg))

RegisterSourceToTarget ==
    Step("register_source_to_target", register_source_to_target(Enter, cfg))

TransformSourceToTarget ==
    Step("transform_source_to_target", transform_source_to_target(Enter, cfg))

RegisterTargetToSource ==
    Step("register_target_to_source", register_target_to_source(Enter, cfg))

TransformTargetToSource ==
    Step("transform_target_to_source", transform_target_to_source(Enter, cfg))

TransformLowresToDownsampled ==
    Step("transform_lowres_to_downsampled", transform_lowres_to_downsampled(Enter, cfg))

SaveTargetParams ==
    Step("save_target_params", save_target_params(Enter, cfg))

\* the process has ended; a new one is started on the same directory
Restart ==
    /\ pc \in {"done", "crashed", "aborted"}
    /\ run < MaxRuns
    /\ pc' = "new"
    /\ mem' = None
    /\ log' = <<>>
    /\ run' = run + 1
    /\ UNCHANGED <<cfg, disk>>

\* the decision a configuration leads to
DecisionOf(c) ==
    LET f == get_source_target_scale_factors(c) IN decide_downsampling(f.s2t, f.t2s)

\* the parameter map an earlier registration with this configuration left
EarlierMap(c, name, stage) ==
    LET d == DecisionOf(c)
        f == get_source_target_scale_factors(c)
    IN  [k |-> "pm", name |-> name, kind |-> "reg", stage |-> stage,
         from |-> ChainFrom(d, name), to |-> ChainTo(d, name), tp |-> <<0, 0, 0>>,
         fix |-> IF name = "src_tar"
                 THEN (IF d = "target" THEN ScaleRes(c.tar_res, f.s2t) ELSE c.tar_res)
                 ELSE (IF d = "source" THEN ScaleRes(c.src_res, f.t2s) ELSE c.src_res),
         order |-> c.order]

\* the scaling file an earlier run (or the user) left: raw -> downsampled
\* scales by the factor towards the lower resolution, the other by its inverse
EarlierScaling(c, name) ==
    LET d == DecisionOf(c)
        f == get_source_target_scale_factors(c)
    IN  ScalingMap(c, d, name, IF name = "src_tar_ds" THEN f.t2s ELSE f.s2t,
                   CASE d = "source" /\ name = "src_tar_ds" -> ScaledSize(c.src_size, f.s2t)
                     [] d = "source" /\ name = "tar_src_ds" -> c.src_size
                     [] d = "target" /\ name = "tar_src_ds" -> ScaledSize(c.tar_size, f.t2s)
                     [] OTHER -> c.tar_size)

\* what is found in the output directories when the first process starts
Leftovers == {"nothing", "scaling", "maps", "last stage"}

EarlierFile(c, left, p) ==
    CASE p[1] = "src_tar_ds_pm_path" /\ p[2] = 0 /\ left # "nothing" /\ DecisionOf(c) # "none"
             -> EarlierScaling(c, "src_tar_ds")
      [] p[1] = "tar_src_ds_pm_path" /\ p[2] = 0 /\ left # "nothing" /\ DecisionOf(c) # "none"
             -> EarlierScaling(c, "tar_src_ds")
      [] p[1] = "src_tar_pm_paths" /\ p[2] < c.n_s2t /\ left = "maps"
             -> EarlierMap(c, "src_tar", p[2])
      [] p[1] = "tar_src_pm_paths" /\ p[2] < c.n_t2s /\ left = "maps"
             -> EarlierMap(c, "tar_src", p[2])
      [] p[1] = "src_tar_pm_paths" /\ p[2] = c.n_s2t - 1 /\ left = "last stage"
             -> EarlierMap(c, "src_tar", p[2])
      [] OTHER -> RawFile(c, p)

ResPairs ==
    {<<<<10, 10, 10>>, <<25, 25, 25>>>>, <<<<25, 25, 25>>, <<10, 10, 10>>>>,
     <<<<25, 25, 25>>, <<25, 25, 25>>>>, <<<<10, 20, 10>>, <<20, 10, 10>>>>,
     <<<<10, 10, 20>>, <<25, 25, 50>>>>}

\* save flags: all of a direction group on or off
SaveChoice(across, ds_template, ds_anno, ds_images) ==
    [f \in SaveKeys |->
        CASE f \in {"s2t_save_template", "s2t_save_annotations", "s2t_save_images",
                    "t2s_save_template", "t2s_save_annotations", "t2s_save_images"} -> across
          [] f \in {"s2t_ds_save_template", "t2s_ds_save_template"} -> ds_template
          [] f \in {"s2t_ds_save_annotations", "t2s_ds_save_annotations"} -> ds_anno
          [] OTHER -> ds_images]

SaveChoices ==
    {SaveChoice(TRUE, TRUE, TRUE, TRUE), SaveChoice(TRUE, FALSE, FALSE, FALSE),
     SaveChoice(TRUE, TRUE, FALSE, TRUE), SaveChoice(FALSE, FALSE, FALSE, FALSE),
     SaveChoice(TRUE, TRUE, FALSE, FALSE)}

FilterChoices ==
    {<<"none", "none", FALSE>>, <<"none", "none", TRUE>>,
     <<"brainregister:autofl-filter", "none", FALSE>>,
     <<"none", "G,2,2,2", FALSE>>,
     <<"brainregister:autofl-filter", "G,2,2,2", FALSE>>}

Configs ==
    {[DefaultConfig EXCEPT !.src_res = r[1], !.tar_res = r[2],
                           !.n_src_anno = na[1], !.n_tar_anno = na[2],
                           !.n_src_img = ni, !.n_tar_img = ni,
                           !.s2t_filter = fl[1], !.t2s_filter = fl[2], !.ds_filter = fl[3],
                           !.save = sv] :
        r \in ResPairs, na \in {0, MaxIdx} \X {0, MaxIdx}, ni \in {0, MaxIdx},
        fl \in FilterChoices, sv \in SaveChoices}

Init ==
    /\ cfg \in Configs
    /\ \E left \in Leftovers : disk = [p \in Paths |-> EarlierFile(cfg, left, p)]
    /\ mem = None
    /\ log = <<>>
    /\ pc = "new"
    /\ run = 1

Next ==
    \/ Construct
    \/ RegisterTransformHighresToDownsampled
    \/ RegisterSourceToTarget
    \/ TransformSourceToTarget
    \/ RegisterTargetToSource
    \/ TransformTargetToSource
    \/ TransformLowresToDownsampled
    \/ SaveTargetParams
    \/ Restart

Spec == Init /\ [][Next]_vars

-----------------------------------------------------------------------------
(* The move operations called on an object after register() has returned *)

MaxCalls == 2

\* the calls made so far
Calls == {i \in DOMAIN log : log[i].op = "call"}

\* the state at the start of a call of method `name' with argument `index'
Called(name, index) ==
    [Enter EXCEPT !.log = Append(@, [op |-> "call", name |-> name, index |-> index])]

\* one call: the object is kept, an exception ends the process
Call(t) ==
    /\ pc = "done"
    /\ Cardinality(Calls) < MaxCalls
    /\ Leave(t, "done", "crashed")

GetTemplateDs == Call(get_template_ds(Called("get_template_ds", 0), cfg))

GetSrcTemplateTar == Call(get_src_template_tar(Called("get_src_template_tar", 0), cfg))

GetTarTemplateSrc == Call(get_tar_template_src(Called("get_tar_template_src", 0), cfg))

GetSrcAnnoTar ==
    \E i \in 0..(cfg.n_src_anno - 1) :
        Call(get_src_anno_tar(Called("get_src_anno_tar", i), cfg, i))

GetTarAnnoSrc ==
    \E i \in 0..(cfg.n_tar_anno - 1) :
        Call(get_tar_anno_src(Called("get_tar_anno_src", i), cfg, i))

GetSrcImageTar ==
    \E i \in 0..(cfg.n_src_img - 1) :
        Call(get_src_image_tar(Called("get_src_image_tar", i), cfg, i))

GetTarImageSrc ==
    \E i \in 0..(cfg.n_tar_img - 1) :
        Call(get_tar_image_src(Called("get_tar_image_src", i), cfg, i))

\* configurations without filters, saving nothing or the moved images only
ApiConfigs ==
    {c \in Configs : /\ c.s2t_filter = "none" /\ c.t2s_filter = "none" /\ ~c.ds_filter
                     /\ c.save \in {SaveChoice(FALSE, FALSE, FALSE, FALSE),
                                     SaveChoice(TRUE, FALSE, FALSE, FALSE)}}

InitApi ==
    /\ cfg \in ApiConfigs
    /\ \E left \in {"nothing", "maps"} : disk = [p \in Paths |-> EarlierFile(cfg, left, p)]
    /\ mem = None
    /\ log = <<>>
    /\ pc = "new"
    /\ run = 1

NextApi ==
    \/ Construct
    \/ RegisterTransformHighresToDownsampled
    \/ RegisterSourceToTarget
    \/ TransformSourceToTarget
    \/ RegisterTargetToSource
    \/ TransformTargetToSource
    \/ TransformLowresToDownsampled
    \/ SaveTargetParams
    \/ GetTemplateDs
    \/ GetSrcTemplateTar
    \/ GetTarTemplateSrc
    \/ GetSrcAnnoTar
    \/ GetTarAnnoSrc
    \/ GetSrcImageTar
    \/ GetTarImageSrc

SpecApi == InitApi /\ [][NextApi]_vars

\* the object is constructed and register() is not called: the move
\* operations are called on whatever the output directories hold
SkipRegister ==
    /\ pc = "register_transform_highres_to_downsampled"
    /\ pc' = "done"
    /\ UNCHANGED <<cfg, disk, mem, log, run>>

NextMove ==
    \/ NextApi
    \/ SkipRegister

SpecMove == InitApi /\ [][NextMove]_vars

-----------------------------------------------------------------------------
(* A run of register() that is killed, and the run started afterwards *)

\* the process is killed between two methods of register()
Kill ==
    /\ pc \in {StepNames[k] : k \in DOMAIN StepNames}
    /\ pc' = "killed"
    /\ UNCHANGED <<cfg, disk, mem, log, run>>

\* the process is killed between two os.rename calls of save_pm_files
KillInSave(name, t) ==
    /\ pc = name
    /\ Ok(t)
    /\ disk' = t.disk
    /\ mem' = t.mem
    /\ log' = Append(t.log, [op |-> "raise", err |-> "KeyboardInterrupt"])
    /\ pc' = "killed"
    /\ UNCHANGED <<cfg, run>>

KillInSaveSrcTar ==
    /\ ~pm_files_exist(Enter, "src_tar_pm_paths", cfg.n_s2t)
    /\ \E k \in 1..(cfg.n_s2t_ep - 1) :
           KillInSave("register_source_to_target",
                      register_source_to_target_killed(Enter, cfg, k))

KillInSaveTarSrc ==
    /\ ~pm_files_exist(Enter, "tar_src_pm_paths", cfg.n_t2s)
    /\ \E k \in 1..(cfg.n_t2s_ep - 1) :
           KillInSave("register_target_to_source",
                      register_target_to_source_killed(Enter, cfg, k))

\* a new process is started on the directory the killed one left
Resume ==
    /\ pc = "killed"
    /\ run < MaxRuns
    /\ pc' = "new"
    /\ mem' = None
    /\ log' = <<>>
    /\ run' = run + 1
    /\ UNCHANGED <<cfg, disk>>

\* the first process starts on a directory that holds the input data only
InitResume ==
    /\ cfg \in Configs
    /\ disk = [p \in Paths |-> RawFile(cfg, p)]
    /\ mem = None
    /\ log = <<>>
    /\ pc = "new"
    /\ run = 1

NextResume ==
    \/ Construct
    \/ RegisterTransformHighresToDownsampled
    \/ RegisterSourceToTarget
    \/ TransformSourceToTarget
    \/ RegisterTargetToSource
    \/ TransformTargetToSource
    \/ TransformLowresToDownsampled
    \/ SaveTargetParams
    \/ Kill
    \/ KillInSaveSrcTar
    \/ KillInSaveTarSrc
    \/ Resume

SpecResume == InitResume /\ [][NextResume]_vars

-----------------------------------------------------------------------------
(* Stage lists of any length, and an engine that leaves too few or too many  *)
(* TransformParameters files                                                *)

StageCounts == 1..MaxStages

\* the filename lists and the stage-file lists of both directions have any
\* length; elastix leaves every file or all but the last
StageConfigs ==
    {[c EXCEPT !.n_s2t = n[1], !.n_s2t_ep = n[2], !.n_t2s = n[3], !.n_t2s_ep = n[4],
               !.lost = l] :
        c \in ApiConfigs, n \in StageCounts \X StageCounts \X StageCounts \X StageCounts,
        l \in {0, 1}}

\* the working directory may hold a TransformParameters.1.txt left by an
\* earlier process
StaleFile(c, left, p) ==
    IF left = "stale" /\ p = <<"TransformParameters", 1>> THEN EarlierMap(c, "src_tar", 1)
    ELSE EarlierFile(c, IF left = "stale" THEN "nothing" ELSE left, p)

InitStages ==
    /\ cfg \in StageConfigs
    /\ \E left \in {"nothing", "maps", "stale"} :
           disk = [p \in Paths |-> StaleFile(cfg, left, p)]
    /\ mem = None
    /\ log = <<>>
    /\ pc = "new"
    /\ run = 1

SpecStages == InitStages /\ [][Next]_vars

-----------------------------------------------------------------------------
(* Parameter files in which a resolution was left at 0 *)

ZeroVals == {0, 10, 25}

ZeroVecs == ZeroVals \X ZeroVals \X ZeroVals

InitZero ==
    /\ cfg \in {[DefaultConfig EXCEPT !.src_res = sr, !.tar_res = tr] :
                    sr \in ZeroVecs, tr \in ZeroVecs}
    /\ \E left \in {"nothing", "maps"} :
           disk = [p \in Paths |->
                      IF \E k \in 1..3 : cfg.src_res[k] = 0 \/ cfg.tar_res[k] = 0
                      THEN RawFile(cfg, p) ELSE EarlierFile(cfg, left, p)]
    /\ mem = None
    /\ log = <<>>
    /\ pc = "new"
    /\ run = 1

SpecZero == InitZero /\ [][Next]_vars

-----------------------------------------------------------------------------
(* Templates of any size *)

\* a template has 4, 8, .. 4*MaxSize voxels along an axis
MaxSize == 3

SizeVals == {4 * k : k \in 1..MaxSize}

\* register() on a fresh directory, for every size of the source template and
\* a cubic target template
InitSizes ==
    /\ cfg \in {[DefaultConfig EXCEPT !.src_res = r[1], !.tar_res = r[2],
                                       !.src_size = sz, !.tar_size = <<n, n, n>>] :
                    r \in ResPairs, sz \in SizeVals \X SizeVals \X SizeVals,
                    n \in SizeVals}
    /\ disk = FreshDisk(cfg)
    /\ mem = None
    /\ log = <<>>
    /\ pc = "new"
    /\ run = 1

SpecSizes == InitSizes /\ [][Next]_vars

-----------------------------------------------------------------------------
(* Resolutions that differ by a larger factor *)

\* an axis has a resolution of 5, 10, .. 5*MaxWide micrometres
MaxWide == 6

WideVals == {5 * k : k \in 1..MaxWide}

InitWide ==
    /\ cfg \in {[DefaultConfig EXCEPT !.src_res = <<a[1], a[1], a[2]>>,
                                       !.tar_res = <<b[1], b[2], b[2]>>] :
                    a \in WideVals \X WideVals, b \in WideVals \X WideVals}
    /\ disk = FreshDisk(cfg)
    /\ mem = None
    /\ log = <<>>
    /\ pc = "new"
    /\ run = 1

SpecWide == InitWide /\ [][NextRes]_vars

-----------------------------------------------------------------------------
(* Images of any pixel type *)

PixelTypes == NamedTypes \cup {"32-bit unsigned integer", "32-bit float"}

\* the pixel values of the images of a data set, in halves: the ends of the
\* type for the named types, labels over 65535 for 32-bit labels, negative
\* and fractional values for float images
PixelVals(pixel) ==
    CASE pixel = "8-bit unsigned integer" -> {{0, 200, 510}}
      [] pixel = "8-bit signed integer" -> {{-256, 0, 254}}
      [] pixel = "16-bit unsigned integer" -> {{0, 2000, 131070}}
      [] pixel = "16-bit signed integer" -> {{-65536, 0, 65534}}
      [] pixel = "32-bit unsigned integer" -> {{0, 1994, 140000}, {132000, 140000}}
      [] pixel = "32-bit float" -> {{-10, 21}, {201, 401}}

\* what astype gives for a value the type cannot hold
AsTypeOutcomes == {"wrap", "pin"}

PixelConfigs ==
    {[DefaultConfig EXCEPT !.src_res = r[1], !.tar_res = r[2],
                           !.n_src_anno = MaxIdx, !.n_tar_anno = MaxIdx,
                           !.n_src_img = MaxIdx, !.n_tar_img = ni,
                           !.save = SaveChoice(TRUE, FALSE, FALSE, FALSE),
                           !.pixel = px, !.vals = vs, !.astype = at] :
        r \in ResPairs, px \in PixelTypes, vs \in UNION {PixelVals(t) : t \in PixelTypes},
        at \in AsTypeOutcomes, ni \in {0, MaxIdx}}

\* every image of the data set has the pixel type and the values of the
\* configuration; the move operations are called with or without register()
InitPixels ==
    /\ cfg \in {c \in PixelConfigs : c.vals \in PixelVals(c.pixel)}
    /\ \E left \in {"nothing", "maps"} : disk = [p \in Paths |-> EarlierFile(cfg, left, p)]
    /\ mem = None
    /\ log = <<>>
    /\ pc = "new"
    /\ run = 1

SpecPixels == InitPixels /\ [][NextMove]_vars

-----------------------------------------------------------------------------
(* Filter strings of one or more segments *)

\* a filter string has 1 .. MaxSegments segments
MaxSegments == 2

FilterCodes == {"M", "E", "G", "GH"}

Kernels == {<<4, 4, 4>>, <<1, 1, 0>>, <<10, 10, 4>>}

\* the stages a user can ask for: a code and a kernel each
StageLists == UNION {[1..n -> FilterCodes \X Kernels] : n \in 1..MaxSegments}

\* the filter string that asks for the stages q: "M,1,1,0-GH,10,10,4"
RECURSIVE FilterString(_)
FilterString(q) ==
    IF q = <<>> THEN ""
    ELSE Head(q)[1] \o "," \o ToString(Head(q)[2][1]) \o "," \o ToString(Head(q)[2][2])
             \o "," \o ToString(Head(q)[2][3])
             \o (IF Tail(q) = <<>> THEN "" ELSE "-" \o FilterString(Tail(q)))

\* register() on a fresh directory with a source-to-target prefilter
InitFilters ==
    /\ cfg \in {[DefaultConfig EXCEPT !.src_res = r[1], !.tar_res = r[2],
                                       !.s2t_filter = FilterString(q)] :
                    r \in ResPairs, q \in StageLists}
    /\ disk = FreshDisk(cfg)
    /\ mem = None
    /\ log = <<>>
    /\ pc = "new"
    /\ run = 1

SpecFilters == InitFilters /\ [][Next]_vars

-----------------------------------------------------------------------------
(* Templates saved in one direction only *)

\* the two 'save-template' flags of the cross-space outputs, set independently
TemplateSaveChoices ==
    {[SaveChoice(FALSE, FALSE, FALSE, FALSE) EXCEPT !.s2t_save_template = a,
                                                    !.t2s_save_template = b] :
        a, b \in BOOLEAN}

InitSave ==
    /\ cfg \in {[DefaultConfig EXCEPT !.src_res = r[1], !.tar_res = r[2],
                                       !.t2s_filter = f, !.save = sv] :
                    r \in ResPairs, f \in {"none", "G,2,2,2"}, sv \in TemplateSaveChoices}
    /\ \E left \in {"nothing", "maps"} : disk = [p \in Paths |-> EarlierFile(cfg, left, p)]
    /\ mem = None
    /\ log = <<>>
    /\ pc = "new"
    /\ run = 1

SpecSave == InitSave /\ [][Next]_vars

-----------------------------------------------------------------------------
(* The downsampling filter over resolution ratios of 1 to 5 *)

\* register() with the downsampling filter enabled, on a fresh directory or
\* on one that holds the scaling files
InitRatios ==
    /\ cfg \in {[DefaultConfig EXCEPT !.src_res = <<a[1], a[1], a[2]>>,
                                       !.tar_res = <<b[1], b[2], b[2]>>,
                                       !.ds_filter = TRUE] :
                    a \in ResVals \X ResVals, b \in ResVals \X ResVals}
    /\ \E left \in {"nothing", "scaling"} :
           disk = [p \in Paths |-> EarlierFile(cfg, left, p)]
    /\ mem = None
    /\ log = <<>>
    /\ pc = "new"
    /\ run = 1

SpecRatios == InitRatios /\ [][Next]_vars

-----------------------------------------------------------------------------
(* The names of the parameter files a registration leaves in the working     *)
(* directory, for registrations of up to MaxEmitted stages                   *)

MaxEmitted == 12

\* elastix names the file of stage i TransformParameters.<i>.txt
TransformParametersName(i) == "TransformParameters." \o ToString(i) \o ".txt"

\* the code points of the characters two such names can differ in
CharCode(ch) ==
    CASE ch = "." -> 46
      [] ch = "0" -> 48 [] ch = "1" -> 49 [] ch = "2" -> 50 [] ch = "3" -> 51
      [] ch = "4" -> 52 [] ch = "5" -> 53 [] ch = "6" -> 54 [] ch = "7" -> 55
      [] ch = "8" -> 56 [] ch = "9" -> 57

\* str.__lt__: the order list.sort() puts file names in
RECURSIVE StrLess(_, _)
StrLess(a, b) ==
    IF a = "" THEN b # ""
    ELSE IF b = "" THEN FALSE
    ELSE IF Head(a) = Head(b) THEN StrLess(Tail(a), Tail(b))
    ELSE CharCode(Head(a)) < CharCode(Head(b))

\* transform_params.sort(): the files of the working directory by name
RECURSIVE SortedByName(_)
SortedByName(files) ==
    IF files = {} THEN <<>>
    ELSE LET first == CHOOSE f \in files :
                          \A g \in files \ {f} : StrLess(f.name, g.name)
         IN  <<first>> \o SortedByName(files \ {first})

\* the constructor has validated the counts: a direction has as many stages
\* as transform parameter filenames
InitNames ==
    /\ cfg \in [n_s2t : 1..MaxEmitted, n_t2s : 1..MaxEmitted]
    /\ disk = [cwd |-> {}, src_tar_pm_paths |-> <<>>, tar_src_pm_paths |-> <<>>]
    /\ mem = None
    /\ log = <<>>
    /\ pc = "register_source_to_target"
    /\ run = 1

\* register_image: elastix leaves one parameter file per stage in the working
\* directory
ElastixNamed(at, name, n, next) ==
    /\ pc = at
    /\ disk' = [disk EXCEPT !.cwd = {[name |-> TransformParametersName(i),
                                      dir |-> name, stage |-> i] : i \in 0..(n - 1)}]
    /\ pc' = next
    /\ UNCHANGED <<cfg, mem, log, run>>

\* save_pm_files(pm_paths): the i-th file by name is renamed to pm_paths[i]
SavePmFilesNamed(at, paths, next) ==
    /\ pc = at
    /\ disk' = [disk EXCEPT !.cwd = {},
                            ![paths] = [i \in 1..Cardinality(disk.cwd) |->
                                           [dir |-> SortedByName(disk.cwd)[i].dir,
                                            stage |-> SortedByName(disk.cwd)[i].stage]]]
    /\ pc' = next
    /\ UNCHANGED <<cfg, mem, log, run>>

RegisterImageSrcTar ==
    ElastixNamed("register_source_to_target", "src_tar", cfg.n_s2t, "save src_tar")

SavePmFilesSrcTar ==
    SavePmFilesNamed("save src_tar", "src_tar_pm_paths", "register_target_to_source")

RegisterImageTarSrc ==
    ElastixNamed("register_target_to_source", "tar_src", cfg.n_t2s, "save tar_src")

SavePmFilesTarSrc ==
    SavePmFilesNamed("save tar_src", "tar_src_pm_paths", "done")

NextNames ==
    \/ RegisterImageSrcTar
    \/ SavePmFilesSrcTar
    \/ RegisterImageTarSrc
    \/ SavePmFilesTarSrc

SpecNames == InitNames /\ [][NextNames]_vars

-----------------------------------------------------------------------------
(* The path lists resolve_source_params and resolve_target_params build,    *)
(* with the downsampling output directory of a side enabled or disabled     *)

\* one path per input file, named after the list and the index
PathList(name, n) == [i \in 1..n |-> <<name, i - 1>>]

\* a downsampled path is appended only if the downsampling output directory
\* of the side is enabled
DsPathList(name, n, ds) == IF ds THEN PathList(name, n) ELSE <<>>

\* the lists of resolve_source_params
SourcePathLists(c) ==
    [source_anno_path |-> PathList("source_anno_path", c.n_src_anno),
     source_anno_path_ds |-> DsPathList("source_anno_path_ds", c.n_src_anno, c.src_tar_ds),
     source_anno_path_target |-> PathList("source_anno_path_target", c.n_src_anno),
     source_image_path |-> PathList("source_image_path", c.n_src_img),
     source_image_path_ds |-> DsPathList("source_image_path_ds", c.n_src_img, c.src_tar_ds),
     source_image_path_target |-> PathList("source_image_path_target", c.n_src_img)]

\* the lists of resolve_target_params
TargetPathLists(c) ==
    [target_anno_path |-> PathList("target_anno_path", c.n_tar_anno),
     target_anno_path_ds |-> DsPathList("target_anno_path_ds", c.n_tar_anno, c.tar_src_ds),
     target_anno_path_source |-> PathList("target_anno_path_source", c.n_tar_anno),
     target_image_paths |-> PathList("target_image_paths", c.n_tar_img),
     target_image_paths_ds |-> DsPathList("target_image_paths_ds", c.n_tar_img, c.tar_src_ds),
     target_image_paths_source |-> PathList("target_image_paths_source", c.n_tar_img)]

\* a parameters file: the numbers of annotations and images of each side, and
\* whether 'source-to-target-downsampling-output' and
\* 'target-to-source-downsampling-output' are other than false
InitPaths ==
    /\ cfg \in [n_src_anno : 0..MaxIdx, n_src_img : 0..MaxIdx,
                n_tar_anno : 0..MaxIdx, n_tar_img : 0..MaxIdx,
                src_tar_ds : BOOLEAN, tar_src_ds : BOOLEAN]
    /\ disk = None
    /\ mem = None
    /\ log = <<>>
    /\ pc = "resolve_source_params"
    /\ run = 1

ResolveSourceParams ==
    /\ pc = "resolve_source_params"
    /\ mem' = SourcePathLists(cfg)
    /\ pc' = "resolve_target_params"
    /\ UNCHANGED <<cfg, disk, log, run>>

ResolveTargetParams ==
    /\ pc = "resolve_target_params"
    /\ mem' = Merge(mem, TargetPathLists(cfg))
    /\ pc' = "resolved"
    /\ UNCHANGED <<cfg, disk, log, run>>

NextPaths ==
    \/ ResolveSourceParams
    \/ ResolveTargetParams

SpecPaths == InitPaths /\ [][NextPaths]_vars

-----------------------------------------------------------------------------
(* Claims *)

Constructed == pc \notin {"new", "aborted"}

Volume(res) == res[1] * res[2] * res[3]

\* the engine calls and the file writes of the running process
Transformix == {i \in DOMAIN log : log[i].op = "transformix"}

Elastix == {i \in DOMAIN log : log[i].op = "elastix"}

Writes == {i \in DOMAIN log : log[i].op = "write"}

\* the interpolation orders of the stages of a chain
Orders(pms) == {pms.stages[i].order : i \in DOMAIN pms.stages}

\* the last stage of a chain
Last(pms) == pms.stages[Len(pms.stages)]

\* C1: the downsampling decision follows the products of the per-axis scale
\* factors rounded to six decimals: 'source' if the source-to-target product is
\* the smaller, 'target' if the target-to-source product is the smaller, 'none'
\* if they are equal; and the side with the strictly smaller voxels is the one
\* downsampled.
C1_Decision ==
    Constructed =>
        LET ps2t == Product3([k \in 1..3 |-> Round6Ratio(cfg.src_res[k], cfg.tar_res[k])])
            pt2s == Product3([k \in 1..3 |-> Round6Ratio(cfg.tar_res[k], cfg.src_res[k])])
            d == mem.downsampling_img
        IN  /\ d = "source" <=> BigLess(ps2t, pt2s)
            /\ d = "target" <=> BigLess(pt2s, ps2t)
            /\ d = "none" <=> (~BigLess(ps2t, pt2s) /\ ~BigLess(pt2s, ps2t))
            /\ Volume(cfg.src_res) < Volume(cfg.tar_res) => d = "source"
            /\ Volume(cfg.tar_res) < Volume(cfg.src_res) => d = "target"

\* C1 witness: an anisotropic pair with the finer source has been decided
C1_Witness ==
    /\ Constructed
    /\ cfg.src_res = <<5, 10, 25>>
    /\ cfg.tar_res = <<10, 25, 10>>
    /\ mem.downsampling_img = "source"

\* C2: whenever register_source_to_target or register_target_to_source invokes
\* elastix, the moving and the fixed image have the same resolution on every
\* axis, whatever the resolutions and the downsampling decision.
C2_MatchedResolution ==
    \A i \in Elastix : log[i].moving.res = log[i].fixed.res

\* the template of the downsampled side in downsampled space
IsDownsampledTemplate(img, d) ==
    /\ img.role = "template"
    /\ img.side = d
    /\ img.space = "ds"
    /\ img.via # <<>>

\* C3: under the decision 'source' or 'target' no registration is given the raw
\* source template together with the raw target template: one of the two
\* images is the downsampled (possibly prefiltered) template of the
\* downsampled side.
C3_NeverRawWithRaw ==
    \A i \in Elastix :
        DecisionOf(cfg) # "none" =>
            \/ IsDownsampledTemplate(log[i].moving, DecisionOf(cfg))
            \/ IsDownsampledTemplate(log[i].fixed, DecisionOf(cfg))

\* C3 witness: with the source downsampled, the target-to-source registration
\* has run on the prefiltered downsampled source template
C3_Witness ==
    \E i \in Elastix :
        /\ DecisionOf(cfg) = "source"
        /\ log[i].name = "tar_src"
        /\ IsDownsampledTemplate(log[i].fixed, "source")
        /\ log[i].fixed.filt # <<>>
        /\ log[i].moving.space = "target"

\* C4: every transformix call on an annotation uses a chain whose stages all
\* have interpolation order 0, and no annotation is ever filtered.
C4_AnnotationsNearestNeighbour ==
    /\ \A i \in Transformix :
           log[i].img.role = "anno" =>
               /\ Orders(log[i].pms) = {0}
               /\ log[i].img.filt = <<>>
    /\ \A i \in Writes :
           (log[i].val.k = "img" /\ log[i].val.role = "anno") => log[i].val.filt = <<>>

\* C5: deriving the annotation variant of a chain leaves the continuous variant
\* unchanged: every template or auxiliary image is resampled with a chain whose
\* stages all have the interpolation order read from the parameter files.
C5_ContinuousKeepsOrder ==
    \A i \in Transformix :
        log[i].img.role # "anno" => Orders(log[i].pms) = {cfg.order}

\* C6: chains are directional: an image is resampled only with a chain that
\* leads away from the space the image is in; a source-side image is never
\* moved with the target-to-source chain nor a target-side image with the
\* source-to-target chain.
C6_Directional ==
    \A i \in Transformix :
        /\ \A k \in DOMAIN log[i].pms.stages : log[i].pms.stages[k].from = log[i].img.space
        /\ log[i].img.side = "target" => Last(log[i].pms).name \in {"tar_src", "tar_src_ds", "src_tar_ds"}
        /\ log[i].img.side = "source" => Last(log[i].pms).name \in {"src_tar", "src_tar_ds", "tar_src_ds"}

\* the paths of image artifacts and transform parameter files
IsArtifact(p) == p[1] \notin {"TransformParameters", "target_params_output_path"}

\* C7: no image artifact and no transform parameter file is written at a path
\* where a file already existed.
C7_NoOverwrite ==
    \A i \in Writes : IsArtifact(log[i].path) => ~log[i].existed

\* C8: when a move operation is called twice in a row with the same argument,
\* the second call invokes neither elastix nor transformix.
C8_SecondCallHits ==
    \A i, j \in Calls :
        (/\ i < j
         /\ log[i].name = log[j].name
         /\ log[i].index = log[j].index
         /\ \A m \in Calls : ~(i < m /\ m < j))
        => \A k \in Transformix \cup Elastix :
               k > j => \E m \in Calls : j < m /\ m < k

\* the image a transformix call produces: role, index, side, the space it is
\* taken from and the space it is brought to
Produced(e) == <<e.img.role, e.img.idx, e.img.side, e.img.space, Last(e.pms).to>>

\* C9: within one run no image (role, index, source space, destination space)
\* is produced by transformix more than once.
C9_ProducedOnce ==
    \A i, j \in Transformix : i < j => Produced(log[i]) # Produced(log[j])

ScalingPaths == {"src_tar_ds_pm_path", "tar_src_ds_pm_path"}

\* the methods of register() in calling order, and the end
Methods ==
    <<"register_transform_highres_to_downsampled", "register_source_to_target",
      "transform_source_to_target", "register_target_to_source",
      "transform_target_to_source", "transform_lowres_to_downsampled",
      "save_target_params", "done">>

\* the positions of the process after the named method has returned
After(name) ==
    {Methods[k] : k \in {n \in DOMAIN Methods : \E m \in 1..(n - 1) : Methods[m] = name}}

\* C10: the scaling files are synthesised before any registration that uses a
\* downsampled template, and the registration of a direction is complete
\* before any image is resampled with the parameter maps of that direction.
C10_Ordering ==
    /\ \A i \in Elastix :
           (log[i].moving.space = "ds" \/ log[i].fixed.space = "ds") =>
               \A j \in Writes : log[j].path[1] \in ScalingPaths => j < i
    /\ \A i \in Transformix :
           \A j \in Elastix : log[j].name = Last(log[i].pms).name => j < i
    /\ (pc \in After("register_transform_highres_to_downsampled")
           /\ DecisionOf(cfg) # "none") =>
           \A p \in ScalingPaths : exists([disk |-> disk], <<p, 0>>)
    /\ pc \in After("register_source_to_target") =>
           pm_files_exist([disk |-> disk], "src_tar_pm_paths", cfg.n_s2t)
    /\ pc \in After("register_target_to_source") =>
           pm_files_exist([disk |-> disk], "tar_src_pm_paths", cfg.n_t2s)

\* C10 witness: in one run the scaling files were written, then a downsampled
\* template registered, then an image resampled with the registered maps
C10_Witness ==
    \E i \in Writes, j \in Elastix, k \in Transformix :
        /\ log[i].path[1] \in ScalingPaths
        /\ i < j
        /\ log[j].moving.space = "ds"
        /\ j < k
        /\ Last(log[k].pms).name = log[j].name

\* the registration files a move operation reads
RegistrationPaths(name) ==
    IF name \in {"get_src_template_tar", "get_src_anno_tar", "get_src_image_tar"}
    THEN "src_tar_pm_paths" ELSE "tar_src_pm_paths"

\* the scaling file a move operation reads under decision d
ScalingPath(name, d) ==
    IF name = "get_template_ds" THEN ImgDsChain(d) \o "_path"
    ELSE IF (RegistrationPaths(name) = "src_tar_pm_paths") <=> (d = "source")
         THEN ImgDsChain(d) \o "_path"
    ELSE DsImgChain(d) \o "_path"

C12_Resumable ==
    run > 1 => pc \notin {"aborted", "crashed"}

\* the positions a process can be in once generate_ds_scaling_param_files was
\* called: every position but those before the first method of register()
ScalingGenerated ==
    pc \notin {"new", "aborted", "killed", "register_transform_highres_to_downsampled"}

\* C13: once generate_ds_scaling_param_files was called under the decision
\* 'source' or 'target', the raw-to-downsampled and the downsampled-to-raw
\* scaling file are both on disk, and when the first method of register() has
\* returned both scaling chains are held in memory.
C13_BothScalingEdges ==
    /\ (ScalingGenerated /\ DecisionOf(cfg) # "none") =>
           \A p \in ScalingPaths : exists([disk |-> disk], <<p, 0>>)
    /\ (pc = "register_source_to_target" /\ DecisionOf(cfg) # "none") =>
           /\ ~IsNone(mem.src_tar_ds_pm)
           /\ ~IsNone(mem.tar_src_ds_pm)

\* the registrations of a direction the running process has made
ElastixOf(l, name) == {i \in DOMAIN l : l[i].op = "elastix" /\ l[i].name = name}

\* a registration method that returns has invoked elastix exactly if some
\* parameter file of its direction was missing when it was called, and one
\* that finds every file ends without an error
RegistersIfMissing(method, name, paths, n) ==
    pc = method =>
        /\ pc' = StepAfter(method) =>
               (ElastixOf(log', name) # {} <=> ~pm_files_exist([disk |-> disk], paths, n))
        /\ pm_files_exist([disk |-> disk], paths, n) =>
               (pc' = StepAfter(method) /\ log' = log /\ disk' = disk)
        /\ pc' = StepAfter(method) => pm_files_exist([disk |-> disk'], paths, n)

FilesLeft(n) ==
    (n - cfg.lost)
    + Cardinality({i \in 0..PathTop : /\ i >= n - cfg.lost
                                      /\ exists([disk |-> disk], <<"TransformParameters", i>>)})

\* a registration that leaves a number of files other than the number of
\* configured filenames ends the process with an error
WrongCountIsFatal(method, name, stages, n) ==
    (/\ pc = method
     /\ ElastixOf(log', name) # {}
     /\ FilesLeft(stages) # n) => pc' = "crashed"

\* C15: if a registration leaves fewer or more TransformParameters files than
\* there are configured parameter filenames of its direction, the run ends
\* with an error and does not go on with the set it found.
C15_WrongCountIsFatal ==
    [][/\ WrongCountIsFatal("register_source_to_target", "src_tar",
                            cfg.n_s2t_ep, cfg.n_s2t)
       /\ WrongCountIsFatal("register_target_to_source", "tar_src",
                            cfg.n_t2s_ep, cfg.n_t2s)]_vars

\* a direction has as many parameter filenames as elastix stage files
CountsMatch == cfg.n_s2t = cfg.n_s2t_ep /\ cfg.n_t2s = cfg.n_t2s_ep

\* C16: when the number of parameter filenames of a direction differs from
\* the number of its elastix stage files, construction ends with SystemExit
\* before a parameter map is loaded, an output directory is made, or a
\* registration or transform is run.
C16_CountsValidated ==
    ~CountsMatch =>
        /\ pc \in {"new", "aborted"}
        /\ \A p \in Paths : p[1] = "output_dirs" => IsNone(disk[p])
        /\ pc = "aborted" =>
               /\ log = <<[op |-> "raise", err |-> "SystemExit"]>>
               /\ \A f \in {"src_tar_ds_pm", "tar_src_ds_pm", "src_tar_pm", "tar_src_pm"} :
                      IsNone(mem[f])

\* C16 witness: the counts differ, parameter files of an earlier run are on
\* disk, and construction has ended
C16_Witness ==
    /\ cfg.n_s2t # cfg.n_s2t_ep
    /\ exists([disk |-> disk], <<"src_tar_pm_paths", 0>>)
    /\ exists([disk |-> disk], <<"tar_src_ds_pm_path", 0>>)
    /\ pc = "aborted"

\* an axis of the source or of the target resolution is zero
ZeroAxis == \E k \in 1..3 : cfg.src_res[k] = 0 \/ cfg.tar_res[k] = 0

\* construction ended before any work: no engine call, no file written
NoWorkDone ==
    /\ pc \in {"new", "aborted"}
    /\ Elastix = {}
    /\ Transformix = {}
    /\ Writes = {}
    /\ \A p \in Paths : p[1] = "output_dirs" => IsNone(disk[p])

\* C17: a zero on any axis of the source or of the target resolution ends
\* construction with the configuration error the program reports (sys.exit),
\* before any transform work.
C17_ZeroResolutionRejected ==
    ZeroAxis =>
        /\ NoWorkDone
        /\ pc = "aborted" => log = <<[op |-> "raise", err |-> "SystemExit"]>>


\* the process has no scaling parameter file and never wrote one
NoScalingFile ==
    /\ \A i \in Writes : log[i].path[1] \notin ScalingPaths
    /\ \A p \in ScalingPaths : ~exists([disk |-> disk], <<p, 0>>)

\* a registration method called with a parameter file of its direction
\* missing returns, and the registration it ran had the raw template of one
\* side moving and the raw template of the other side fixed
RegistersRaw(method, name, paths, n, moving, fixed) ==
    (pc = method /\ ~pm_files_exist([disk |-> disk], paths, n)) =>
        /\ pc' = StepAfter(method)
        /\ ElastixOf(log', name) # {}
        /\ \A i \in ElastixOf(log', name) :
               /\ log'[i].moving.space = moving /\ log'[i].moving.via = <<>>
               /\ log'[i].fixed.space = fixed /\ log'[i].fixed.via = <<>>

\* C18: with identical resolutions on both sides the decision is 'none', no
\* scaling parameter file is created by any step, and both registrations are
\* run between the raw source template and the raw target template, with or
\* without a configured prefilter.
C18_IdenticalResolutions ==
    /\ [](cfg.src_res = cfg.tar_res =>
              /\ DecisionOf(cfg) = "none"
              /\ pc # "new" => mem.downsampling_img = "none"
              /\ NoScalingFile)
    /\ [][cfg.src_res = cfg.tar_res =>
              /\ RegistersRaw("register_source_to_target", "src_tar",
                              "src_tar_pm_paths", cfg.n_s2t, "source", "target")
              /\ RegistersRaw("register_target_to_source", "tar_src",
                              "tar_src_pm_paths", cfg.n_t2s, "target", "source")]_vars


\* the scaling stages the process has written
ScalingWritten == {log[i].val : i \in {j \in Writes : log[j].path[1] \in ScalingPaths}}

\* an entry of a parameter tuple has six decimals and stands for v millionths
SixDecimals(str, v) ==
    /\ Len(str) >= 8
    /\ SubSeq(str, Len(str) - 6, Len(str) - 6) = "."
    /\ ParseFloat(str) = v

\* the TransformParameters of a pure diagonal scaling by the factors f
DiagonalScaling(tp, f) ==
    /\ Len(tp) = 12
    /\ \A i \in 1..12 :
           IF i \in {1, 5, 9} THEN SixDecimals(tp[i], f[(i + 3) \div 4])
           ELSE tp[i] = "0.000000"

\* C19: every synthesized scaling stage has 12 TransformParameters: positions
\* 0, 4 and 8 are the x, y and z scale factors of one direction with six
\* decimals, every other position is 0.000000; for source 10 and target 25 on
\* every axis the raw-to-downsampled stage has 2.500000 on the diagonal.
C19_DiagonalScaling ==
    /\ \A pm \in ScalingWritten :
           \/ DiagonalScaling(pm.TransformParameters,
                              get_source_target_scale_factors(cfg).s2t)
           \/ DiagonalScaling(pm.TransformParameters,
                              get_source_target_scale_factors(cfg).t2s)
    /\ (cfg.src_res = <<10, 10, 10>> /\ cfg.tar_res = <<25, 25, 25>>) =>
           \A pm \in ScalingWritten :
               (pm.from = "source" /\ pm.to = "ds") =>
                   /\ pm.TransformParameters[1] = "2.500000"
                   /\ pm.TransformParameters[5] = "2.500000"
                   /\ pm.TransformParameters[9] = "2.500000"

\* C19 witness: source 10, target 25, register() has returned and the
\* raw-to-downsampled scaling file it synthesized is on disk
C19_Witness ==
    /\ pc = "done"
    /\ cfg.src_res = <<10, 10, 10>> /\ cfg.tar_res = <<25, 25, 25>>
    /\ \E pm \in ScalingWritten :
           /\ pm.from = "source" /\ pm.to = "ds"
           /\ disk[<<"src_tar_ds_pm_path", 0>>] = pm
           /\ pm.TransformParameters[5] = "2.500000"

\* the Size of the source-raw to downsampled stages written is the source
\* template size times num / den, rounded, on each axis
SizeTimes(num, den) ==
    (cfg.src_res = <<10, 10, 10>> /\ cfg.tar_res = <<25, 25, 25>>) =>
        \A pm \in ScalingWritten :
            (pm.from = "source" /\ pm.to = "ds") =>
                \A k \in 1..3 :
                    ParseFloat(pm.Size[k]) = RoundHalfEven(cfg.src_size[k] * num, den) * Micro

\* C20: for source resolution 10 and target resolution 25 on every axis the
\* scaling transform from source-raw to downsampled space has destination
\* Size round(source_size * 2.5) on each axis.
C20_SizeTimesTwoPointFive == SizeTimes(5, 2)

\* C20 as amended: the destination Size is round(source_size * 0.4) on each
\* axis, the grid of the source template at the target resolution.
C20_SizeTimesPointFour == SizeTimes(2, 5)

\* C20 witness: the stage was written for a source template whose scaled size
\* is not a whole number on some axis
C20_Witness ==
    /\ cfg.src_res = <<10, 10, 10>> /\ cfg.tar_res = <<25, 25, 25>>
    /\ \E k \in 1..3 : (cfg.src_size[k] * 2) % 5 # 0
    /\ \E pm \in ScalingWritten : pm.from = "source" /\ pm.to = "ds"


\* the decision with the labels of the two sides exchanged
Flipped(d) ==
    CASE d = "source" -> "target"
      [] d = "target" -> "source"
      [] OTHER -> "none"

\* C21: for every pair of non-zero resolution vectors the decision taken with
\* source and target resolution exchanged is the decision with the labels
\* exchanged: 'source' becomes 'target', 'target' becomes 'source', 'none'
\* stays 'none'.
C21_DecisionSymmetric ==
    Constructed =>
        DecisionOf([cfg EXCEPT !.src_res = cfg.tar_res, !.tar_res = cfg.src_res])
            = Flipped(mem.downsampling_img)

\* C21 witness: an anisotropic pair decided 'target' whose exchange is decided
\* 'source'
C21_Witness ==
    /\ Constructed
    /\ cfg.src_res = <<10, 25, 10>>
    /\ cfg.tar_res = <<5, 10, 25>>
    /\ mem.downsampling_img = "target"
    /\ DecisionOf([cfg EXCEPT !.src_res = cfg.tar_res, !.tar_res = cfg.src_res]) = "source"


\* 1.0 as a product of two factors held in millionths, and twice that
ProductOne == <<0, 0, 0, 0, 1>>

ProductTwo == <<0, 0, 0, 0, 2>>

\* x <= y for exact products
BigLeq(x, y) == ~BigLess(y, x)

\* the product of the two factors differs from 1.0 by at most 0.000001
WithinOneUnit(s, t) ==
    /\ BigLeq(ProductOne, AddCarry(BigMul(Digits(s), Digits(t)), Digits(Micro), 0))
    /\ BigLeq(BigMul(Digits(s), Digits(t)), AddCarry(ProductOne, Digits(Micro), 0))

\* the product of the two factors differs from 1.0 by at most 0.0000005 times
\* their sum
WithinHalfUnitOfSum(s, t) ==
    /\ BigLeq(ProductTwo, AddCarry(BigMul(Digits(2 * s), Digits(t)), Digits(s + t), 0))
    /\ BigLeq(BigMul(Digits(2 * s), Digits(t)), AddCarry(ProductTwo, Digits(s + t), 0))

\* C22: for all non-zero resolutions and every axis, the source-to-target
\* scale factor times the target-to-source scale factor, each rounded to six
\* decimals, is 1.0 to within one unit of the sixth decimal.
C22_ProductIsOne ==
    Constructed => \A k \in 1..3 : WithinOneUnit(mem.s2t[k], mem.t2s[k])

\* C22 as amended: the product is 1.0 to within half a unit of the sixth
\* decimal times the sum of the two factors.
C22_ProductNearOne ==
    Constructed => \A k \in 1..3 : WithinHalfUnitOfSum(mem.s2t[k], mem.t2s[k])

\* C22 witness: factors 6.000000 and 0.166667, whose product is 1.000002
C22_Witness ==
    /\ Constructed
    /\ \E k \in 1..3 : mem.s2t[k] = 6 * Micro /\ mem.t2s[k] = 166667


\* C23: for any continuous image of any pixel type the image a move returns
\* has a minimum not under and a maximum not over those of the image it was
\* given: values out of range are clamped and the conversion to the pixel
\* type takes no value out of the range.
C23_RangeKept ==
    \A i \in Transformix :
        log[i].img.role # "anno" =>
            /\ Minimum(log[i].out.vals) >= Minimum(log[i].img.vals)
            /\ Maximum(log[i].out.vals) <= Maximum(log[i].img.vals)

\* C24: for every pixel type the image a move returns has the pixel type of
\* the image it was given.
C24_TypeKept ==
    \A i \in Transformix : log[i].out.pixel = log[i].img.pixel

\* C25: a label image moved through any chain keeps its label set: every
\* value of the image returned is a value of the image given, for every label
\* integer pixel type, 32-bit labels included.
C25_LabelsKept ==
    \A i \in Transformix :
        (log[i].img.role = "anno" /\ log[i].img.pixel # "32-bit float") =>
            log[i].out.vals \subseteq log[i].img.vals


\* the kind of filter a code names
KindNamed(filter_code) ==
    CASE filter_code = "M" -> "median"
      [] filter_code = "E" -> "mean"
      [] filter_code = "G" -> "Gaussian low-pass"
      [] filter_code = "GH" -> "Gaussian high-pass"

\* the kind of filter a stage of a pipeline runs
KindBuilt(stage) ==
    CASE stage.flt = "MedianImageFilter" -> "median"
      [] stage.flt = "MeanImageFilter" -> "mean"
      [] stage.flt = "SmoothingRecursiveGaussianImageFilter" -> "Gaussian low-pass"

\* the pipeline has one stage per requested stage, in the order written, of
\* the kind and with the kernel requested
BuiltAsWritten(pipeline, q) ==
    /\ Len(pipeline.img_filter) = Len(q)
    /\ Len(pipeline.img_filter_kernel) = Len(q)
    /\ \A i \in 1..Len(q) :
           /\ KindBuilt(pipeline.img_filter[i]) = KindNamed(q[i][1])
           /\ pipeline.img_filter[i].kernel = q[i][2]
           /\ pipeline.img_filter_kernel[i] = q[i][2]

\* the source-to-target prefilter pipeline has been built
PipelineBuilt == Constructed /\ mem.src_tar_filter_pipeline.k = "pipeline"

\* C26: ImageFilterPipeline builds one stage per '-'-separated segment, in the
\* order written, each of the kind its code names (M median, E mean, G
\* Gaussian low-pass, GH Gaussian high-pass) with the three integers of the
\* segment as kernel; "M,4,4,4" gives one median stage of radius (4,4,4) and
\* "M,1,1,0-GH,10,10,4" a median (1,1,0) stage followed by a Gaussian
\* high-pass (10,10,4) stage.
C26_PipelineAsWritten ==
    PipelineBuilt =>
        \A q \in StageLists :
            FilterString(q) = cfg.s2t_filter =>
                BuiltAsWritten(mem.src_tar_filter_pipeline, q)


\* the writes of a template at its path in the space of the other side
CrossTemplateWrites ==
    {i \in Writes : log[i].path[1] \in {"source_template_path_target",
                                       "target_template_path_source"}}

\* the side whose raw space a cross-space template path stands for
Destination(p) == IF p[1] = "source_template_path_target" THEN "target" ELSE "source"

\* the registration that leads to the side `dest'
RegistrationTo(dest) == IF dest = "target" THEN "src_tar" ELSE "tar_src"

\* the image went through the registration chain and then a scaling
WentThroughBothHops(img, chain) ==
    /\ Len(img.via) >= 2
    /\ img.via[Len(img.via) - 1].name = chain
    /\ img.via[Len(img.via)].name \in {"src_tar_ds", "tar_src_ds"}

TargetToSourceReturned ==
    pc \in {"transform_lowres_to_downsampled", "save_target_params", "done"}

\* C28: after transform_target_to_source has returned with
\* 'target-to-source-save-template' true, the target template in source space
\* exists on disk, whatever the source-to-target artifacts are and whether or
\* not the source template in target space is held in memory.
C28_TargetTemplateSaved ==
    (TargetToSourceReturned /\ cfg.save.t2s_save_template) =>
        disk[<<"target_template_path_source", 0>>].k = "img"


\* the space the template of `side' is registered in
RegistrationSpace(side) == IF DecisionOf(cfg) = side THEN "ds" ELSE side

\* a loaded template of `side' in the space it is registered in, filtered
IsFilteredTemplate(img, side) ==
    /\ img.k = "img"
    /\ img.role = "template"
    /\ img.side = side
    /\ img.space = RegistrationSpace(side)
    /\ img.filt # <<>>

\* the step `step' of register(), entered with the prefilter `filter' and
\* without the parameter map files, hands the engine the filtered templates
\* moving_side (moving) and fixed_side (fixed)
RegistersFiltered(step, name, filter, paths, n, moving_side, fixed_side) ==
    (/\ pc = step
     /\ pc' # pc
     /\ filter # "none"
     /\ ~pm_files_exist(Enter, paths, n))
        => /\ Len(log') > Len(log)
           /\ log'[Len(log) + 1].op # "raise"
           /\ \E i \in (Len(log) + 1)..Len(log') :
                  /\ log'[i].op = "elastix"
                  /\ log'[i].name = name
                  /\ IsFilteredTemplate(log'[i].moving, moving_side)
                  /\ IsFilteredTemplate(log'[i].fixed, fixed_side)

\* C29: with a registration prefilter configured, in each downsampling mode
\* the images given to the filter pipeline and the two images passed to the
\* engine are loaded images: the filtered versions of the two templates the
\* unfiltered registration of that mode uses (the downsampled template of the
\* downsampled side, the raw template of the other side).
C29_FilteredTemplatesRegistered ==
    [][/\ RegistersFiltered("register_source_to_target", "src_tar", cfg.s2t_filter,
                            "src_tar_pm_paths", cfg.n_s2t, "source", "target")
       /\ RegistersFiltered("register_target_to_source", "tar_src", cfg.t2s_filter,
                            "tar_src_pm_paths", cfg.n_t2s, "target", "source")]_vars


\* the last stages applied to the image are those of the pipeline built from
\* filter_string
FilteredWith(img, filter_string) ==
    LET stages == compute_adaptive_filter(filter_string).img_filter
    IN  /\ Len(img.filt) >= Len(stages)
        /\ SubSeq(img.filt, Len(img.filt) - Len(stages) + 1, Len(img.filt)) = stages

\* C30: when the target-to-source registration runs after the source-to-target
\* registration in the same process and both prefilters are configured, the
\* two images handed to the target-to-source registration are filtered with
\* the pipeline of 'target-to-source-filter', not with the pipeline of
\* 'source-to-target-filter'.
C30_OwnPrefilter ==
    \A i, j \in Elastix :
        (/\ i < j
         /\ log[i].name = "src_tar"
         /\ log[j].name = "tar_src"
         /\ cfg.s2t_filter # "none"
         /\ cfg.t2s_filter # "none")
            => /\ FilteredWith(log[j].moving, cfg.t2s_filter)
               /\ FilteredWith(log[j].fixed, cfg.t2s_filter)


\* the operation a pipeline applies for the one-segment string of `code' and
\* `kernel'
OperationOf(code, kernel) ==
    ImageFilterPipeline(FilterString(<<<<code, kernel>>>>)).img_filter[1]

\* C31: a GH stage executes a Gaussian high-pass and a G stage a Gaussian
\* low-pass: the operation applied to an image for a GH segment is not the
\* operation a pipeline applies for a G segment with the same sigma triple.
C31_HighPassIsNotLowPass ==
    \A i \in Elastix :
        \A q \in StageLists :
            (log[i].name = "src_tar" /\ FilterString(q) = cfg.s2t_filter
                                     /\ Len(log[i].moving.filt) = Len(q))
                => \A n \in 1..Len(q) :
                       q[n][1] = "GH" => log[i].moving.filt[n] # OperationOf("G", q[n][2])


\* the image was last filtered with the downsampling filter of the process
DownsamplingFiltered(img) ==
    LET stages == compute_adaptive_filter_img_ds(mem).img_filter
    IN  /\ Len(img.filt) >= Len(stages)
        /\ SubSeq(img.filt, Len(img.filt) - Len(stages) + 1, Len(img.filt)) = stages

\* the transformix calls that resample a template or an auxiliary image into
\* downsampled space
IntoDownsampled ==
    {i \in Transformix : log[i].img.role # "anno" /\ Last(log[i].pms).to = "ds"}

\* C32, over every move into downsampled space: with the downsampling filter enabled, every continuous
\* image moved into downsampled space is filtered before the resampling and
\* the engine receives the filtered image.
C32_FilteredBeforeDownsampled ==
    cfg.ds_filter => \A i \in IntoDownsampled : DownsamplingFiltered(log[i].img)

\* C32: with the downsampling filter enabled, every continuous image moved
\* from the raw space of the downsampled side into downsampled space is
\* filtered before the resampling and the engine receives the filtered image.
C32_FilteredBeforeDownsampling ==
    cfg.ds_filter =>
        \A i \in IntoDownsampled :
            log[i].img.space = DecisionOf(cfg) => DownsamplingFiltered(log[i].img)


\* C32 witness: with the downsampling filter enabled an auxiliary image of the
\* downsampled side has been filtered and then resampled into downsampled space
C32_Witness ==
    /\ cfg.ds_filter
    /\ \E i \in IntoDownsampled :
           /\ log[i].img.role = "image"
           /\ log[i].img.space = DecisionOf(cfg)
           /\ log[i].img.filt # <<>>
           /\ DownsamplingFiltered(log[i].img)


\* the resolution of the other side over the resolution of the side being
\* downsampled, to six decimals, in millionths
ResolutionRatio(k) ==
    IF DecisionOf(cfg) = "source" THEN Round6Ratio(cfg.tar_res[k], cfg.src_res[k])
    ELSE Round6Ratio(cfg.src_res[k], cfg.tar_res[k])

\* the downsampling filter has been built
DownsamplingFilterBuilt == Constructed /\ mem.img_ds_filter_pipeline.k = "pipeline"

\* the downsampling filter is a single median stage
SingleMedian ==
    /\ Len(mem.img_ds_filter_pipeline.img_filter) = 1
    /\ mem.img_ds_filter_pipeline.img_filter[1].flt = "MedianImageFilter"

\* C33, half of the rounded ratio: the downsampling filter is a single median
\* stage whose radius on each axis is half the resolution ratio rounded to an
\* integer (target/source when the source is downsampled, source/target when
\* the target is).
C33_HalfOfRoundedRatio ==
    DownsamplingFilterBuilt =>
        /\ SingleMedian
        /\ \A k \in 1..3 :
               2 * mem.img_ds_filter_pipeline.img_filter[1].kernel[k]
                   = RoundHalfEven(ResolutionRatio(k), Micro)

\* C33: the downsampling filter is a single median stage whose radius on each
\* axis is half the resolution ratio (target/source when the source is
\* downsampled, source/target when the target is), rounded to an integer, ties
\* to the even one.
C33_RoundedHalfRatio ==
    DownsamplingFilterBuilt =>
        /\ SingleMedian
        /\ \A k \in 1..3 :
               mem.img_ds_filter_pipeline.img_filter[1].kernel[k]
                   = RoundHalfEven(ResolutionRatio(k), 2 * Micro)

\* C33 witness: source (5, 5, 10) and target (25, 15, 15): the ratios 5, 3
\* and 1.5 give the radii 2, 2 and 1
C33_Witness ==
    /\ DownsamplingFilterBuilt
    /\ cfg.src_res = <<5, 5, 10>>
    /\ cfg.tar_res = <<25, 15, 15>>
    /\ mem.img_ds_filter_pipeline.img_filter[1].kernel = <<2, 2, 1>>


\* the file stored at the i-th configured filename (counted from 0) of the
\* list `paths' is the one the registration `name' emitted for stage i
StoredInStageOrder(paths, name) ==
    \A i \in 0..(Len(disk[paths]) - 1) :
        /\ disk[paths][i + 1].stage = i
        /\ disk[paths][i + 1].dir = name

\* C34: after a registration with n configured stages the parameter file
\* emitted for stage i is stored at the i-th configured transform parameter
\* filename of that direction, for every i and every n >= 1.
C34_StoredInStageOrder ==
    /\ StoredInStageOrder("src_tar_pm_paths", "src_tar")
    /\ StoredInStageOrder("tar_src_pm_paths", "tar_src")
    /\ pc \in {"register_target_to_source", "save tar_src", "done"}
           => Len(disk.src_tar_pm_paths) = cfg.n_s2t
    /\ pc = "done" => Len(disk.tar_src_pm_paths) = cfg.n_t2s


\* the pipeline objects the process holds
PipelineAttributes ==
    {"img_ds_filter_pipeline", "src_tar_filter_pipeline", "tar_src_filter_pipeline"}

\* the number of images a pipeline object refers to
HeldImages(filter_pipeline) ==
    Cardinality({f \in {"img", "filtered_img"} : filter_pipeline[f].k = "img"})

\* the pipeline has been executed by apply_adaptive_filter
Executed(filter_pipeline) ==
    /\ filter_pipeline.k = "pipeline"
    /\ filter_pipeline.img.k # "Unset"

\* C35: an ImageFilterPipeline holds at most one image at a time and, once
\* apply_adaptive_filter has returned, holds no reference to any image,
\* neither the input image nor the filtered result.
C35_PipelineHoldsNoImage ==
    Constructed =>
        \A p \in PipelineAttributes :
            Executed(mem[p]) =>
                /\ HeldImages(mem[p]) = 0
                /\ HeldImages(execute_pipeline(
                       set_image(mem[p], RawImage(cfg, "template", "source", 0)))) <= 1


\* the raw template of the downsampled side is not held in memory
RawTemplateReleased ==
    DecisionOf(cfg) # "none" => IsNone(mem[DecisionOf(cfg) \o "_template_img"])

\* C36: once the downsampled template of the downsampled side has been
\* produced, the reference to that side's raw template is released: after
\* register_transform_highres_to_downsampled and after a registration (one
\* that had to generate the downsampled template included) the raw template
\* attribute of the downsampled side is None.
C36_RawTemplateReleased ==
    pc \in {"register_source_to_target", "transform_source_to_target",
            "transform_target_to_source"}
        => RawTemplateReleased


\* annotation i of the downsampled side d in downsampled space, made from the
\* raw annotation file i
IsDownsampledAnno(img, d, i) ==
    /\ img.k = "img"
    /\ img.role = "anno"
    /\ img.side = d
    /\ img.idx = i
    /\ img.space = "ds"

\* register_transform_highres_to_downsampled reaches transform_save_high_ds_anno
\* with the saving of downsampled annotations requested
ReachesHighDsAnno ==
    /\ pc = "register_transform_highres_to_downsampled"
    /\ pc' # pc
    /\ DecisionOf(cfg) # "none"
    /\ cfg.save[DsKey(DecisionOf(cfg)) \o "_save_annotations"]
    /\ Ok(transform_save_high_ds_template(generate_ds_scaling_param_files(Enter, cfg), cfg))

\* C37: for every annotation index i of the downsampled side,
\* transform_save_high_ds_anno produces the downsampled annotation i from the
\* raw annotation file i, never reading the downsampled path it has found
\* missing, and persists it at the downsampled annotation path i.
C37_AnnotationsDownsampled ==
    [][ReachesHighDsAnno =>
           \A i \in 0..(NAnnos(cfg, DecisionOf(cfg)) - 1) :
               IsDownsampledAnno(disk'[<<DecisionOf(cfg) \o "_anno_path_ds", i>>],
                                 DecisionOf(cfg), i)]_vars


\* the raw, the downsampled and the cross-space list have one length
SameLength(raw, ds, across) ==
    /\ Len(mem[ds]) = Len(mem[raw])
    /\ Len(mem[across]) = Len(mem[raw])

\* C38: for every configuration the raw, the downsampled and the cross-space
\* path list of the annotations, and of the auxiliary images, of a side have
\* the same length, also when the downsampling output directory of that side
\* is disabled.
C38_PathListsSameLength ==
    /\ pc \in {"resolve_target_params", "resolved"} =>
           /\ SameLength("source_anno_path", "source_anno_path_ds", "source_anno_path_target")
           /\ SameLength("source_image_path", "source_image_path_ds",
                         "source_image_path_target")
    /\ pc = "resolved" =>
           /\ SameLength("target_anno_path", "target_anno_path_ds", "target_anno_path_source")
           /\ SameLength("target_image_paths", "target_image_paths_ds",
                         "target_image_paths_source")


\* the moves of a raw image into downsampled space by a scaling map alone
ScaledDown ==
    {i \in DOMAIN log : /\ log[i].op = "transformix"
                        /\ log[i].img.space \in {"source", "target"}
                        /\ log[i].out.space = "ds"
                        /\ Len(log[i].pms.stages) = 1
                        /\ log[i].pms.stages[1].kind = "scaling"}

\* the sides whose images this process has downsampled
DownsampledSides == {log[i].img.space : i \in ScaledDown}

\* one decision, and no side downsampled but the one decided on
OneDownsampledSide ==
    /\ mem.downsampling_img \in {"source", "target", "none"}
    /\ DownsampledSides \subseteq {mem.downsampling_img}

\* a step of the constructed object leaves the decision and both scale-factor
\* vectors as they are
DecisionKept ==
    (Constructed /\ Constructed') =>
        /\ mem'.downsampling_img = mem.downsampling_img
        /\ mem'.s2t = mem.s2t
        /\ mem'.t2s = mem.t2s

\* C39: the downsampling decision is fixed once per run: after initialization
\* no operation changes downsampling_img or the two scale-factor vectors, and
\* in every reachable state at most one of source and target is the
\* downsampled side.
C39_DecisionFixed ==
    /\ [](Constructed => OneDownsampledSide)
    /\ [][DecisionKept]_vars

C39_Witness ==
    /\ pc = "done"
    /\ mem.downsampling_img = "source"
    /\ DownsampledSides = {"source"}
    /\ mem.s2t = get_source_target_scale_factors(cfg).s2t

====
